---- MODULE Spec2Model ----
(***************************************************************************)
(* Model of the Apple Notes MCP server: the service layer                  *)
(* (src/src/notes-service.ts) running its JXA scripts against the note     *)
(* store of the Notes application.                                         *)
(*                                                                         *)
(* Strings are sequences of symbols.  A symbol is either one character     *)
(* ("a", "A", "<", "&", ...) or one literal fragment of the source that    *)
(* is never split ("Note not found", "<div>", an opaque identifier "n1").  *)
(* String.includes is a contiguous-subsequence test, concatenation is \o.  *)
(***************************************************************************)
EXTENDS Integers, Sequences, FiniteSets, TLC

VARIABLES
    notes,      \* the notes of the Notes application, in notesApp.notes() order
    folders,    \* the folders of all accounts, in accounts()/folders() order
    result,     \* the settled promise of the last service call, with its arguments
    deleted     \* ids for which a deleteNote call has succeeded (history)

vars == <<notes, folders, result, deleted>>

----------------------------------------------------------------------------
(* Bounds *)

MaxDate == 2        \* timestamps range over 1..MaxDate
MaxLimit == 3       \* limit arguments range over 0..MaxLimit
MaxBatch == 2       \* batchMoveNotes takes at most MaxBatch ids
MaxNotes == 3       \* createNote is not called on a store of MaxNotes notes
MaxLen == 2         \* the texts of the text specification have at most MaxLen characters
MaxFolders == 9     \* createFolder is not called on a store of MaxFolders folders
MaxTimeout == 2     \* the timeouts of runJxa range over 1..MaxTimeout clock ticks
MaxLog == 6         \* the listeners are not run once stderr holds MaxLog lines

----------------------------------------------------------------------------
(* JavaScript values *)

undefined == <<"undefined">>
null == <<"null">>

\* JavaScript truthiness of an optional string
Truthy(s) == s # undefined /\ s # null /\ s # <<>>

\* String.prototype.includes
Includes(s, sub) ==
    \E i \in 0..(Len(s) - Len(sub)) : SubSeq(s, i + 1, i + Len(sub)) = sub

LowerOf(c) == IF c = "A" THEN "a" ELSE IF c = "B" THEN "b" ELSE c

\* String.prototype.toLowerCase
toLowerCase(s) == [i \in 1..Len(s) |-> LowerOf(s[i])]

\* one symbol stands for one character, except the block of MAX_BODY_SIZE - 1
\* characters "x"
BigBlock == "x{100*1024-1}"
SymLen(c) == IF c = BigBlock THEN 100 * 1024 - 1 ELSE 1

\* String.prototype.length
RECURSIVE StrLen(_)
StrLen(s) == IF s = <<>> THEN 0 ELSE SymLen(Head(s)) + StrLen(Tail(s))

\* String.prototype.substring(0, n)
Substring0(s, n) == SubSeq(s, 1, IF Len(s) < n THEN Len(s) ELSE n)

\* Date.prototype.toISOString and new Date(iso).getTime()
toISOString(d) == [iso |-> d]
getTime(s) == s.iso

RECURSIVE Flatten(_)
Flatten(ss) == IF ss = <<>> THEN <<>> ELSE Head(ss) \o Flatten(Tail(ss))

Min(a, b) == IF a < b THEN a ELSE b

\* Array.prototype.slice(0, n) for n >= 0
Slice0(s, n) == SubSeq(s, 1, Min(n, Len(s)))

----------------------------------------------------------------------------
(* The note store of the Notes application *)

RecentlyDeleted == <<"Recently Deleted">>

NumAccounts == 2

\* account.folders()
AccountFolders(fs, a) == SelectSeq(fs, LAMBDA f : f.account = a)

\* the folders visited by "for a in accounts: for f in account.folders()"
AllFolders(fs) == Flatten([a \in 1..NumAccounts |-> AccountFolders(fs, a)])

\* folder.notes()
FolderNotes(ns, fid) == SelectSeq(ns, LAMBDA n : n.folder = fid)

FolderIds(fs) == {fs[i].id : i \in 1..Len(fs)}
NoteIdsOf(ns) == {ns[i].id : i \in 1..Len(ns)}

\* index of the first element of s satisfying Test, 0 when there is none
FirstIndex(s, Test(_)) ==
    IF \E i \in 1..Len(s) : Test(s[i])
    THEN CHOOSE i \in 1..Len(s) : Test(s[i]) /\ \A j \in 1..(i - 1) : ~Test(s[j])
    ELSE 0

\* the Recently Deleted folder of the account that owns folder fid
TrashOf(fs, fid) ==
    LET a == (CHOOSE f \in {fs[i] : i \in 1..Len(fs)} : f.id = fid).account
        t == AccountFolders(fs, a)
    IN t[FirstIndex(t, LAMBDA f : f.name = RecentlyDeleted)].id

----------------------------------------------------------------------------
(* jxa-adapter: runJxa wraps the script, runs it and decodes the envelope *)

ScriptOk(data, ns) == [status |-> "success", data |-> data, store |-> ns]
ScriptThrow(message, ns) == [status |-> "error", message |-> message, store |-> ns]

Resolved(v) == [ok |-> TRUE, value |-> v]
Rejected(m) == [ok |-> FALSE, message |-> m]

runJxa(outcome) ==
    IF outcome.status = "error"
    THEN Rejected(<<"Failed to execute JXA: ">> \o (<<"JXA Error: ">> \o outcome.message))
    ELSE Resolved(outcome.data)

NoteNotFound(id) == <<"Note not found", ": ">> \o id
FolderNotFound(id) == <<"Folder not found", ": ">> \o id

----------------------------------------------------------------------------
(* listNotes *)

PreviewLength == 200

\* one element of allNotesData
NoteRow(n, f, includePreview) ==
    [id |-> n.id,
     name |-> n.name,
     modificationDate |-> toISOString(n.modificationDate),
     creationDate |-> toISOString(n.creationDate),
     modDate |-> n.modificationDate,
     folderName |-> f.name,
     folderId |-> f.id,
     preview |-> IF includePreview THEN Substring0(n.plaintext, PreviewLength) ELSE undefined]

\* the rows pushed for one folder, after the two "continue" tests
FolderRows(ns, f, includePreview, targetFolderId) ==
    IF f.name = RecentlyDeleted THEN <<>>
    ELSE IF Truthy(targetFolderId) /\ f.id # targetFolderId THEN <<>>
    ELSE LET fn == FolderNotes(ns, f.id)
         IN [i \in 1..Len(fn) |-> NoteRow(fn[i], f, includePreview)]

\* the numbers of K in ascending order
RECURSIVE Ascending(_)
Ascending(K) ==
    IF K = {} THEN <<>>
    ELSE LET m == CHOOSE x \in K : \A y \in K : x <= y
         IN <<m>> \o Ascending(K \ {m})

Reverse(s) == [i \in 1..Len(s) |-> s[Len(s) + 1 - i]]

\* a sort that leaves allNotesData in folder order
SortByModDateOmitted(s) == s

\* allNotesData.sort((a, b) => b.modDate - a.modDate): Array.prototype.sort is
\* stable, so the rows come out grouped by modDate, latest group first, each
\* group in the order the rows were pushed
SortByModDate(s) ==
    LET latestFirst == Reverse(Ascending({s[i].modDate : i \in 1..Len(s)}))
    IN Flatten([k \in 1..Len(latestFirst) |->
                   SelectSeq(s, LAMBDA r : r.modDate = latestFirst[k])])

\* result.forEach(n => delete n.modDate)
DropModDate(r) ==
    [id |-> r.id, name |-> r.name, modificationDate |-> r.modificationDate,
     creationDate |-> r.creationDate, folderName |-> r.folderName,
     folderId |-> r.folderId, preview |-> r.preview]

listNotesScript(ns, fs, limitCount, includePreview, targetFolderId) ==
    LET fl == AllFolders(fs)
        allNotesData ==
            Flatten([f \in 1..Len(fl) |-> FolderRows(ns, fl[f], includePreview, targetFolderId)])
        sorted == SortByModDate(allNotesData)
        sliced == Slice0(sorted, limitCount)
    IN ScriptOk([i \in 1..Len(sliced) |-> DropModDate(sliced[i])], ns)

listNotes(ns, fs, limit, includePreview, folderId) ==
    LET r == runJxa(listNotesScript(ns, fs, limit, includePreview, folderId))
    IN IF r.ok THEN r ELSE Rejected(<<"Failed to list notes: ">> \o r.message)

----------------------------------------------------------------------------
(* listNotesExtended *)

\* a string new Date() cannot parse
NotADate == [text |-> <<"soon">>]

\* new Date(s): valid is FALSE for an Invalid Date, whose time is NaN
NewDate(s) ==
    IF "iso" \in DOMAIN s THEN [valid |-> TRUE, time |-> getTime(s)]
    ELSE [valid |-> FALSE, time |-> 0]

\* a < b and a >= b on Date objects: false when either time is NaN
DateLess(a, b) == a.valid /\ b.valid /\ a.time < b.time
DateAtLeast(a, b) == a.valid /\ b.valid /\ a.time >= b.time

\* options.key, with the default of the destructuring when the key is absent
Option(options, key, default) == IF key \in DOMAIN options THEN options[key] ELSE default

\* filter.key is there and truthy
Given(filter, key) == key \in DOMAIN filter

\* the callback of allNotes.filter
PassesFilter(note, filter) ==
    /\ ~(/\ Given(filter, "createdAfter")
         /\ DateLess(NewDate(note.creationDate), NewDate(filter.createdAfter)))
    /\ ~(/\ Given(filter, "createdBefore")
         /\ DateAtLeast(NewDate(note.creationDate), NewDate(filter.createdBefore)))
    /\ ~(/\ Given(filter, "modifiedAfter")
         /\ DateLess(NewDate(note.modificationDate), NewDate(filter.modifiedAfter)))
    /\ ~(/\ Given(filter, "modifiedBefore")
         /\ DateAtLeast(NewDate(note.modificationDate), NewDate(filter.modifiedBefore)))
    /\ ~(/\ Given(filter, "titleContains")
         /\ Truthy(filter.titleContains)
         /\ ~Includes(toLowerCase(note.name), toLowerCase(filter.titleContains)))

\* the symbols of titles and folder names in the order of the default collation:
\* digits before letters, letters alphabetically, lower case before upper case
Collation == <<"1", "2", "a", "A", "b", "B", "n", "n2", "Notes", "Work", "x", "z">>

CollationRank(c) == CHOOSE i \in 1..Len(Collation) : Collation[i] = c

\* -1, 0 or 1 as the sequence of numbers x is before, equal to or after y
RECURSIVE CompareRanks(_, _)
CompareRanks(x, y) ==
    IF x = <<>> /\ y = <<>> THEN 0
    ELSE IF x = <<>> THEN -1
    ELSE IF y = <<>> THEN 1
    ELSE IF Head(x) < Head(y) THEN -1
    ELSE IF Head(x) > Head(y) THEN 1
    ELSE CompareRanks(Tail(x), Tail(y))

\* String.prototype.localeCompare: letters first, case only to break a tie
localeCompare(a, b) ==
    LET letters == CompareRanks([i \in 1..Len(a) |-> CollationRank(LowerOf(a[i]))],
                                [i \in 1..Len(b) |-> CollationRank(LowerOf(b[i]))])
    IN IF letters # 0 THEN letters
       ELSE CompareRanks([i \in 1..Len(a) |-> CollationRank(a[i])],
                         [i \in 1..Len(b) |-> CollationRank(b[i])])

\* what the switch on sortBy compares
SortKey(note, sortBy) ==
    CASE sortBy = "modificationDate" -> getTime(note.modificationDate)
      [] sortBy = "creationDate" -> getTime(note.creationDate)
      [] sortBy = "title" -> note.name
      [] sortBy = "folder" -> IF Truthy(note.folderName) THEN note.folderName ELSE <<>>

\* comparison, for the keys of two notes
Comparison(sortBy, x, y) ==
    IF sortBy \in {"title", "folder"} THEN localeCompare(x, y) ELSE x - y

\* the keys of K in ascending order
RECURSIVE AscendingKeys(_, _)
AscendingKeys(K, sortBy) ==
    IF K = {} THEN <<>>
    ELSE LET m == CHOOSE x \in K : \A y \in K : Comparison(sortBy, x, y) <= 0
         IN <<m>> \o AscendingKeys(K \ {m}, sortBy)

\* [...filteredNotes].sort(...): a stable sort, so the notes come out grouped by
\* key, the groups in the order of sortOrder, each group in the order it had
SortNotes(s, sortBy, sortOrder) ==
    LET ascending == AscendingKeys({SortKey(s[i], sortBy) : i \in 1..Len(s)}, sortBy)
        keys == IF sortOrder = "asc" THEN ascending ELSE Reverse(ascending)
    IN Flatten([k \in 1..Len(keys) |->
                   SelectSeq(s, LAMBDA r : SortKey(r, sortBy) = keys[k])])

listNotesExtended(ns, fs, options) ==
    LET limit == Option(options, "limit", 100)
        includePreview == Option(options, "includePreview", FALSE)
        folderId == Option(options, "folderId", undefined)
        sortBy == Option(options, "sortBy", "modificationDate")
        sortOrder == Option(options, "sortOrder", "desc")
        fetched == listNotes(ns, fs, 10000, includePreview, folderId)
    IN IF ~fetched.ok THEN fetched
       ELSE LET allNotes == fetched.value
                filteredNotes ==
                    IF "filter" \in DOMAIN options
                    THEN SelectSeq(allNotes, LAMBDA note : PassesFilter(note, options.filter))
                    ELSE allNotes
                sortedNotes == SortNotes(filteredNotes, sortBy, sortOrder)
            IN Resolved(Slice0(sortedNotes, limit))

----------------------------------------------------------------------------
(* searchNotes *)

SearchRow(n) ==
    [id |-> n.id,
     name |-> n.name,
     modificationDate |-> toISOString(n.modificationDate),
     creationDate |-> toISOString(n.creationDate)]

\* first pass: search by name (title), from index i on
RECURSIVE SearchByName(_, _, _, _, _)
SearchByName(allNotes, i, matchingNotes, searchQuery, searchLimit) ==
    IF ~(i <= Len(allNotes) /\ Len(matchingNotes) < searchLimit) THEN matchingNotes
    ELSE IF Includes(toLowerCase(allNotes[i].name), searchQuery)
         THEN SearchByName(allNotes, i + 1, Append(matchingNotes, SearchRow(allNotes[i])),
                           searchQuery, searchLimit)
         ELSE SearchByName(allNotes, i + 1, matchingNotes, searchQuery, searchLimit)

\* a second pass without the "already matched by name" test
RECURSIVE SearchByBodyNoSkip(_, _, _, _, _, _)
SearchByBodyNoSkip(allNotes, i, matchingNotes, searchQuery, searchLimit, unreadable) ==
    IF ~(i <= Len(allNotes) /\ Len(matchingNotes) < searchLimit) THEN matchingNotes
    ELSE IF allNotes[i].id \in unreadable
         THEN SearchByBodyNoSkip(allNotes, i + 1, matchingNotes, searchQuery, searchLimit,
                                 unreadable)
    ELSE IF Includes(toLowerCase(allNotes[i].plaintext), searchQuery)
         THEN SearchByBodyNoSkip(allNotes, i + 1,
                                 Append(matchingNotes, SearchRow(allNotes[i])),
                                 searchQuery, searchLimit, unreadable)
         ELSE SearchByBodyNoSkip(allNotes, i + 1, matchingNotes, searchQuery, searchLimit,
                                 unreadable)

\* second pass: search in body; plaintext() throws for the notes in unreadable
RECURSIVE SearchByBody(_, _, _, _, _, _)
SearchByBody(allNotes, i, matchingNotes, searchQuery, searchLimit, unreadable) ==
    IF ~(i <= Len(allNotes) /\ Len(matchingNotes) < searchLimit) THEN matchingNotes
    ELSE IF \E k \in 1..Len(matchingNotes) : matchingNotes[k].id = allNotes[i].id
         THEN SearchByBody(allNotes, i + 1, matchingNotes, searchQuery, searchLimit, unreadable)
    ELSE IF allNotes[i].id \in unreadable
         THEN SearchByBody(allNotes, i + 1, matchingNotes, searchQuery, searchLimit, unreadable)
    ELSE IF Includes(toLowerCase(allNotes[i].plaintext), searchQuery)
         THEN SearchByBody(allNotes, i + 1, Append(matchingNotes, SearchRow(allNotes[i])),
                           searchQuery, searchLimit, unreadable)
         ELSE SearchByBody(allNotes, i + 1, matchingNotes, searchQuery, searchLimit, unreadable)

\* matchingNotes.sort by new Date(b.modificationDate) - new Date(a.modificationDate)
RECURSIVE InsertByDateString(_, _)
InsertByDateString(x, t) ==
    IF t = <<>> THEN <<x>>
    ELSE IF getTime(Head(t).modificationDate) - getTime(x.modificationDate) > 0
         THEN <<Head(t)>> \o InsertByDateString(x, Tail(t))
         ELSE <<x>> \o t

RECURSIVE SortByDateString(_)
SortByDateString(s) ==
    IF s = <<>> THEN <<>> ELSE InsertByDateString(Head(s), SortByDateString(Tail(s)))

\* a script that searches the bodies before the names
searchNotesScriptBodyFirst(ns, query, searchLimit, unreadable) ==
    LET searchQuery == toLowerCase(query)
        byBody == SearchByBody(ns, 1, <<>>, searchQuery, searchLimit, unreadable)
        matchingNotes ==
            IF Len(byBody) < searchLimit
            THEN SearchByName(SelectSeq(ns, LAMBDA n : n.id \notin {byBody[k].id :
                                                                      k \in 1..Len(byBody)}),
                              1, byBody, searchQuery, searchLimit)
            ELSE byBody
    IN ScriptOk(SortByDateString(matchingNotes), ns)

searchNotesScript(ns, query, searchLimit, unreadable) ==
    LET searchQuery == toLowerCase(query)
        byName == SearchByName(ns, 1, <<>>, searchQuery, searchLimit)
        matchingNotes ==
            IF Len(byName) < searchLimit
            THEN SearchByBody(ns, 1, byName, searchQuery, searchLimit, unreadable)
            ELSE byName
    IN ScriptOk(SortByDateString(matchingNotes), ns)

searchNotes(ns, query, limit, unreadable) ==
    LET r == runJxa(searchNotesScript(ns, query, limit, unreadable))
    IN IF r.ok THEN r ELSE Rejected(<<"Failed to search notes: ">> \o r.message)

----------------------------------------------------------------------------
(* readNote *)

NoteDetail(n) ==
    [id |-> n.id,
     name |-> n.name,
     body |-> n.body,
     plaintext |-> n.plaintext,
     modificationDate |-> toISOString(n.modificationDate),
     creationDate |-> toISOString(n.creationDate)]

\* a single pass taking the first note whose id or name is the search term
FindByIdOrName(ns, searchTerm) ==
    FirstIndex(ns, LAMBDA n : n.id = searchTerm \/ n.name = searchTerm)

\* first by id over all notes, then, only when that found nothing, by name
FindByIdThenName(ns, searchTerm) ==
    LET byId == FirstIndex(ns, LAMBDA n : n.id = searchTerm)
    IN IF byId # 0 THEN byId ELSE FirstIndex(ns, LAMBDA n : n.name = searchTerm)

readNoteScript(ns, searchTerm) ==
    LET targetNote == FindByIdThenName(ns, searchTerm)
    IN IF targetNote = 0
       THEN ScriptThrow(NoteNotFound(searchTerm), ns)
       ELSE ScriptOk(NoteDetail(ns[targetNote]), ns)

readNote(ns, nameOrId) ==
    LET r == runJxa(readNoteScript(ns, nameOrId))
    IN IF r.ok THEN r
       ELSE IF Includes(r.message, <<"Note not found">>) THEN Rejected(NoteNotFound(nameOrId))
       ELSE Rejected(<<"Failed to read note: ">> \o r.message)

----------------------------------------------------------------------------
(* getNoteForSummary *)

\* plaintext.trim()
RECURSIVE TrimLeft(_)
TrimLeft(s) == IF s # <<>> /\ Head(s) = " " THEN TrimLeft(Tail(s)) ELSE s

RECURSIVE TrimRight(_)
TrimRight(s) ==
    IF s # <<>> /\ s[Len(s)] = " " THEN TrimRight(SubSeq(s, 1, Len(s) - 1)) ELSE s

Trim(s) == TrimRight(TrimLeft(s))

\* plaintext.trim().split(/\s+/).filter(w => w.length > 0).length
WordCount(s) ==
    LET t == Trim(s)
    IN Cardinality({i \in 1..Len(t) : t[i] # " " /\ (i = 1 \/ t[i - 1] = " ")})

\* the first note, in account/folder/note order and outside Recently Deleted,
\* whose id or name is the search term: <<folder, note>>, or <<>> when none
SummaryCandidates(ns, fs, searchTerm) ==
    LET fl == AllFolders(fs)
    IN Flatten([f \in 1..Len(fl) |->
           IF fl[f].name = RecentlyDeleted THEN <<>>
           ELSE LET fn == FolderNotes(ns, fl[f].id)
                    hit == SelectSeq(fn, LAMBDA n : n.id = searchTerm \/ n.name = searchTerm)
                IN [i \in 1..Len(hit) |-> <<fl[f], hit[i]>>]])

getNoteForSummaryScript(ns, fs, searchTerm) ==
    LET c == SummaryCandidates(ns, fs, searchTerm)
    IN IF c = <<>>
       THEN ScriptThrow(NoteNotFound(searchTerm), ns)
       ELSE LET folder == c[1][1]
                targetNote == c[1][2]
            IN ScriptOk([id |-> targetNote.id,
                         name |-> targetNote.name,
                         plaintext |-> targetNote.plaintext,
                         creationDate |-> toISOString(targetNote.creationDate),
                         modificationDate |-> toISOString(targetNote.modificationDate),
                         folderName |-> folder.name,
                         wordCount |-> WordCount(targetNote.plaintext),
                         characterCount |-> Len(Trim(targetNote.plaintext))], ns)

getNoteForSummary(ns, fs, nameOrId) ==
    LET r == runJxa(getNoteForSummaryScript(ns, fs, nameOrId))
    IN IF r.ok THEN r
       ELSE IF Includes(r.message, <<"Note not found">>) THEN Rejected(NoteNotFound(nameOrId))
       ELSE Rejected(<<"Failed to get note for summary: ">> \o r.message)

----------------------------------------------------------------------------
(* escapeHtml and the Notes application's rendering of a body *)

\* String.prototype.replace(/c/g, r) for a one-character pattern c
RECURSIVE ReplaceEach(_, _, _)
ReplaceEach(s, c, r) ==
    IF s = <<>> THEN <<>>
    ELSE (IF Head(s) = c THEN r ELSE <<Head(s)>>) \o ReplaceEach(Tail(s), c, r)

ReplaceAll(s, c, r) ==
    IF \A i \in 1..Len(s) : s[i] # c THEN s ELSE ReplaceEach(s, c, r)

Amp == <<"&", "a", "m", "p", ";">>
Lt == <<"&", "l", "t", ";">>
Gt == <<"&", "g", "t", ";">>
Quot == <<"&", "q", "u", "o", "t", ";">>
Apos == <<"&", "#", "0", "3", "9", ";">>

\* the replacements with the ampersand replaced last
escapeHtmlAmpersandLast(text) ==
    ReplaceAll(ReplaceAll(ReplaceAll(ReplaceAll(ReplaceAll(text,
        "<", Lt), ">", Gt), "\"", Quot), "'", Apos), "&", Amp)

escapeHtml(text) ==
    ReplaceAll(ReplaceAll(ReplaceAll(ReplaceAll(ReplaceAll(text,
        "&", Amp), "<", Lt), ">", Gt), "\"", Quot), "'", Apos)

\* the markup fragments of the template literals
Tags == {"<div>", "</div>", "<div><b>", "</b></div><div><br></div><div>"}

StartsWith(s, p) == Len(s) >= Len(p) /\ SubSeq(s, 1, Len(p)) = p
Drop(s, n) == SubSeq(s, n + 1, Len(s))

\* entities decoded, left to right
RECURSIVE DecodeEntities(_)
DecodeEntities(s) ==
    IF s = <<>> THEN <<>>
    ELSE IF StartsWith(s, Amp) THEN <<"&">> \o DecodeEntities(Drop(s, Len(Amp)))
    ELSE IF StartsWith(s, Lt) THEN <<"<">> \o DecodeEntities(Drop(s, Len(Lt)))
    ELSE IF StartsWith(s, Gt) THEN <<">">> \o DecodeEntities(Drop(s, Len(Gt)))
    ELSE IF StartsWith(s, Quot) THEN <<"\"">> \o DecodeEntities(Drop(s, Len(Quot)))
    ELSE IF StartsWith(s, Apos) THEN <<"'">> \o DecodeEntities(Drop(s, Len(Apos)))
    ELSE <<Head(s)>> \o DecodeEntities(Tail(s))

\* the text the Notes application shows for a body: markup removed, entities decoded
plaintextOf(html) ==
    LET text == SelectSeq(html, LAMBDA c : c \notin Tags)
    IN IF \A i \in 1..Len(text) : text[i] # "&" THEN text ELSE DecodeEntities(text)

----------------------------------------------------------------------------
(* createNote *)

\* the html the script builds from its two arguments
createNoteHtml(noteTitle, noteBody) ==
    <<"<div><b>">> \o escapeHtml(noteTitle) \o <<"</b></div><div><br></div><div>">>
        \o escapeHtml(noteBody) \o <<"</div>">>

\* notesApp.make({new: "note", withProperties: {name, body}}): the application
\* assigns the id newId, the folder at and the time now
MakeNote(ns, newId, at, now, name, body) ==
    Append(ns, [id |-> newId, name |-> name, body |-> body, plaintext |-> plaintextOf(body),
                modificationDate |-> now, creationDate |-> now, folder |-> at])

createNoteScript(ns, fs, noteTitle, noteBody, newId, at, now) ==
    IF NumAccounts = 0 THEN ScriptThrow(<<"No Notes account found">>, ns)
    ELSE IF AccountFolders(fs, 1) = <<>>
         THEN ScriptThrow(<<"No folders found in the default account">>, ns)
    ELSE ScriptOk([id |-> newId, name |-> noteTitle],
                  MakeNote(ns, newId, at, now, noteTitle, createNoteHtml(noteTitle, noteBody)))

createNote(ns, fs, title, body, newId, at, now) ==
    LET o == createNoteScript(ns, fs, title, body, newId, at, now)
        r == runJxa(o)
    IN [store |-> o.store,
        ret |-> IF r.ok THEN r ELSE Rejected(<<"Failed to create note: ">> \o r.message)]

----------------------------------------------------------------------------
(* updateNote *)

MAX_BODY_SIZE == 100 * 1024

\* the third script argument: the escaped body in a div, or null
updateNoteHtmlBody(body) ==
    LET escapedBody == IF Truthy(body) THEN escapeHtml(body) ELSE null
    IN IF Truthy(escapedBody) THEN <<"<div>">> \o escapedBody \o <<"</div>">> ELSE null

\* options.title ?? null
OrNull(v) == IF v = undefined THEN null ELSE v

\* a script that assigns the name whether or not a title was sent
updateNoteScriptAlwaysNames(ns, noteId, newTitle, newBody, now) ==
    LET targetNote == FirstIndex(ns, LAMBDA n : n.id = noteId)
    IN IF targetNote = 0 THEN ScriptThrow(NoteNotFound(noteId), ns)
       ELSE LET old == ns[targetNote]
                new == [old EXCEPT
                          !.name = newTitle,
                          !.body = IF newBody # null THEN newBody ELSE @,
                          !.plaintext = IF newBody # null THEN plaintextOf(newBody) ELSE @,
                          !.modificationDate = now]
            IN ScriptOk([id |-> new.id, name |-> new.name,
                         modificationDate |-> toISOString(new.modificationDate),
                         success |-> TRUE],
                        [ns EXCEPT ![targetNote] = new])

updateNoteScript(ns, noteId, newTitle, newBody, now) ==
    LET targetNote == FirstIndex(ns, LAMBDA n : n.id = noteId)
    IN IF targetNote = 0 THEN ScriptThrow(NoteNotFound(noteId), ns)
       ELSE LET old == ns[targetNote]
                new == [old EXCEPT
                          !.name = IF newTitle # null THEN newTitle ELSE @,
                          !.body = IF newBody # null THEN newBody ELSE @,
                          !.plaintext = IF newBody # null THEN plaintextOf(newBody) ELSE @,
                          !.modificationDate = now]
            IN ScriptOk([id |-> new.id, name |-> new.name,
                         modificationDate |-> toISOString(new.modificationDate),
                         success |-> TRUE],
                        [ns EXCEPT ![targetNote] = new])

\* a size test that also refuses a body of MAX_BODY_SIZE characters
ExceedsMaxBodySizeInclusive(body) == StrLen(body) >= MAX_BODY_SIZE

\* options.body.length > MAX_BODY_SIZE
ExceedsMaxBodySize(body) == StrLen(body) > MAX_BODY_SIZE

\* ran is FALSE when the call rejects before runJxa is reached; sent is the
\* argument array handed to runJxa
updateNote(ns, noteId, title, body, now) ==
    IF ~Truthy(title) /\ ~Truthy(body)
    THEN [store |-> ns, ran |-> FALSE, sent |-> <<>>,
          ret |-> Rejected(<<"At least one of title or body must be provided">>)]
    ELSE IF Truthy(body) /\ ExceedsMaxBodySize(body)
    THEN [store |-> ns, ran |-> FALSE, sent |-> <<>>,
          ret |-> Rejected(<<"Body exceeds maximum size", " of 102400 bytes">>)]
    ELSE LET sent == <<noteId, OrNull(title), updateNoteHtmlBody(body)>>
             o == updateNoteScript(ns, sent[1], sent[2], sent[3], now)
             r == runJxa(o)
         IN [store |-> o.store, ran |-> TRUE, sent |-> sent,
             ret |-> IF r.ok THEN r
                     ELSE IF Includes(r.message, <<"Note not found">>)
                          THEN Rejected(NoteNotFound(noteId))
                          ELSE Rejected(<<"Failed to update note: ">> \o r.message)]

----------------------------------------------------------------------------
(* moveNote *)

\* the first folder, in account/folder order, holding a note with the id; 0 if none
FolderOfNote(ns, fs, noteId) ==
    FirstIndex(AllFolders(fs),
               LAMBDA f : \E i \in 1..Len(ns) : ns[i].folder = f.id /\ ns[i].id = noteId)

\* the first note with the id inside folder fid, as an index into ns
NoteInFolder(ns, fid, noteId) ==
    FirstIndex(ns, LAMBDA n : n.folder = fid /\ n.id = noteId)

\* notesApp.move(note, {to: folder})
MoveTo(ns, i, fid) == [ns EXCEPT ![i].folder = fid]

MoveError == <<"Can't move note">>
CannotMove == <<"Cannot move to ", "Recently Deleted", " folder">>

\* a script that reads the note's folder after the move
moveNoteScriptFolderReadLate(ns, fs, noteId, targetFolderId, moveThrows) ==
    LET fl == AllFolders(fs)
        from == FolderOfNote(ns, fs, noteId)
        to == FirstIndex(fl, LAMBDA f : f.id = targetFolderId)
    IN IF from = 0 THEN ScriptThrow(NoteNotFound(noteId), ns)
       ELSE IF to = 0 THEN ScriptThrow(FolderNotFound(targetFolderId), ns)
       ELSE IF fl[to].name = RecentlyDeleted THEN ScriptThrow(CannotMove, ns)
       ELSE IF moveThrows THEN ScriptThrow(MoveError, ns)
       ELSE LET targetNote == NoteInFolder(ns, fl[from].id, noteId)
                moved == MoveTo(ns, targetNote, fl[to].id)
            IN ScriptOk([id |-> noteId,
                         name |-> ns[targetNote].name,
                         previousFolderId |-> moved[targetNote].folder,
                         newFolderId |-> targetFolderId,
                         newFolderName |-> fl[to].name,
                         success |-> TRUE],
                        moved)

moveNoteScript(ns, fs, noteId, targetFolderId, moveThrows) ==
    LET fl == AllFolders(fs)
        from == FolderOfNote(ns, fs, noteId)
        to == FirstIndex(fl, LAMBDA f : f.id = targetFolderId)
    IN IF from = 0 THEN ScriptThrow(NoteNotFound(noteId), ns)
       ELSE IF to = 0 THEN ScriptThrow(FolderNotFound(targetFolderId), ns)
       ELSE IF fl[to].name = RecentlyDeleted THEN ScriptThrow(CannotMove, ns)
       ELSE IF moveThrows THEN ScriptThrow(MoveError, ns)
       ELSE LET targetNote == NoteInFolder(ns, fl[from].id, noteId)
            IN ScriptOk([id |-> noteId,
                         name |-> ns[targetNote].name,
                         previousFolderId |-> fl[from].id,
                         newFolderId |-> targetFolderId,
                         newFolderName |-> fl[to].name,
                         success |-> TRUE],
                        MoveTo(ns, targetNote, fl[to].id))

moveNote(ns, fs, noteId, targetFolderId, moveThrows) ==
    LET o == moveNoteScript(ns, fs, noteId, targetFolderId, moveThrows)
        r == runJxa(o)
    IN [store |-> o.store,
        ret |-> IF r.ok THEN r
                ELSE IF Includes(r.message, <<"Note not found">>)
                     THEN Rejected(NoteNotFound(noteId))
                ELSE IF Includes(r.message, <<"Folder not found">>)
                     THEN Rejected(FolderNotFound(targetFolderId))
                ELSE IF Includes(r.message, <<"Recently Deleted">>)
                     THEN Rejected(CannotMove)
                ELSE Rejected(<<"Failed to move note: ">> \o r.message)]

----------------------------------------------------------------------------
(* deleteNote *)

\* notesApp.delete(note): the note goes to its account's Recently Deleted folder
DeleteToTrash(ns, fs, i) == [ns EXCEPT ![i].folder = TrashOf(fs, ns[i].folder)]

\* a script for which deleting an absent note is a success
deleteNoteScriptIdempotent(ns, fs, noteId) ==
    LET targetNote == FirstIndex(ns, LAMBDA n : n.id = noteId)
    IN IF targetNote = 0
       THEN ScriptOk([id |-> noteId, name |-> <<>>, success |-> TRUE], ns)
       ELSE ScriptOk([id |-> noteId, name |-> ns[targetNote].name, success |-> TRUE],
                     DeleteToTrash(ns, fs, targetNote))

deleteNoteScript(ns, fs, noteId) ==
    LET targetNote == FirstIndex(ns, LAMBDA n : n.id = noteId)
    IN IF targetNote = 0 THEN ScriptThrow(NoteNotFound(noteId), ns)
       ELSE ScriptOk([id |-> noteId, name |-> ns[targetNote].name, success |-> TRUE],
                     DeleteToTrash(ns, fs, targetNote))

deleteNote(ns, fs, noteId) ==
    LET o == deleteNoteScript(ns, fs, noteId)
        r == runJxa(o)
    IN [store |-> o.store,
        ret |-> IF r.ok THEN r
                ELSE IF Includes(r.message, <<"Note not found">>)
                     THEN Rejected(NoteNotFound(noteId))
                     ELSE Rejected(<<"Failed to delete note: ">> \o r.message)]

----------------------------------------------------------------------------
(* Folders inside folders (version 1.1.0)                                   *)

\* a folder created inside another carries its parent's id; account.folders()
\* is the flattened list of all the account's folders, nested ones included
ParentOf(f) == IF "parent" \in DOMAIN f THEN f.parent ELSE null

\* folder.folders(), as indices into fs
SubfolderIndices(fs, fid) ==
    SelectSeq([i \in 1..Len(fs) |-> i], LAMBDA i : ParentOf(fs[i]) = fid)

\* "for a in accounts: for f in account.folders()", as indices into fs
AllFolderIndices(fs) ==
    Flatten([a \in 1..NumAccounts |->
                SelectSeq([i \in 1..Len(fs) |-> i], LAMBDA i : fs[i].account = a)])

\* checkSubfolders(parentFolder) from subfolder s on: the index of the folder
\* found, 0 for null
RECURSIVE checkSubfolders(_, _, _, _)
checkSubfolders(fs, parentFolder, s, targetFolderId) ==
    LET subfolders == SubfolderIndices(fs, fs[parentFolder].id)
    IN IF s > Len(subfolders) THEN 0
       ELSE IF fs[subfolders[s]].id = targetFolderId THEN subfolders[s]
       ELSE LET found == checkSubfolders(fs, subfolders[s], 1, targetFolderId)
            IN IF found # 0 THEN found
               ELSE checkSubfolders(fs, parentFolder, s + 1, targetFolderId)

\* a search that looks at the top-level folders only
RECURSIVE FindTargetFolderTopLevel(_, _, _, _)
FindTargetFolderTopLevel(fs, order, j, targetFolderId) ==
    IF j > Len(order) THEN 0
    ELSE IF ParentOf(fs[order[j]]) = null /\ fs[order[j]].id = targetFolderId
    THEN order[j]
    ELSE FindTargetFolderTopLevel(fs, order, j + 1, targetFolderId)

\* the search for the target folder over the listed folders from position j
\* on: the index of targetFolder, 0 for null
RECURSIVE FindTargetFolder(_, _, _, _)
FindTargetFolder(fs, order, j, targetFolderId) ==
    IF j > Len(order) THEN 0
    ELSE IF fs[order[j]].id = targetFolderId THEN order[j]
    ELSE LET foundSubfolder == checkSubfolders(fs, order[j], 1, targetFolderId)
         IN IF foundSubfolder # 0 THEN foundSubfolder
            ELSE FindTargetFolder(fs, order, j + 1, targetFolderId)

----------------------------------------------------------------------------
(* batchMoveNotes *)

\* a loop that gives up at the first note it cannot move
RECURSIVE BatchLoopStopAtFailure(_, _, _, _, _, _, _, _)
BatchLoopStopAtFailure(ns, fs, noteIds, i, targetFolder, movedCount, failed, throwsAt) ==
    IF i > Len(noteIds)
    THEN ScriptOk([success |-> (Len(failed) = 0), moved |-> movedCount, failed |-> failed], ns)
    ELSE LET noteId == noteIds[i]
             from == FolderOfNote(ns, fs, noteId)
         IN IF from = 0
            THEN ScriptOk([success |-> FALSE, moved |-> movedCount,
                           failed |-> Append(failed, [noteId |-> noteId,
                                                      error |-> <<"Note not found">>])], ns)
            ELSE IF i \in throwsAt
            THEN ScriptOk([success |-> FALSE, moved |-> movedCount,
                           failed |-> Append(failed, [noteId |-> noteId,
                                                      error |-> MoveError])], ns)
            ELSE BatchLoopStopAtFailure(
                     MoveTo(ns, NoteInFolder(ns, AllFolders(fs)[from].id, noteId),
                            targetFolder.id),
                     fs, noteIds, i + 1, targetFolder, movedCount + 1, failed, throwsAt)

\* the loop over noteIds from index i on; throwsAt are the indices at which
\* notesApp.move throws
RECURSIVE BatchLoop(_, _, _, _, _, _, _, _)
BatchLoop(ns, fs, noteIds, i, targetFolder, movedCount, failed, throwsAt) ==
    IF i > Len(noteIds)
    THEN ScriptOk([success |-> (Len(failed) = 0), moved |-> movedCount, failed |-> failed], ns)
    ELSE LET noteId == noteIds[i]
             from == FolderOfNote(ns, fs, noteId)
         IN IF from = 0
            THEN BatchLoop(ns, fs, noteIds, i + 1, targetFolder, movedCount,
                           Append(failed, [noteId |-> noteId, error |-> <<"Note not found">>]),
                           throwsAt)
            ELSE IF i \in throwsAt
            THEN BatchLoop(ns, fs, noteIds, i + 1, targetFolder, movedCount,
                           Append(failed, [noteId |-> noteId, error |-> MoveError]),
                           throwsAt)
            ELSE BatchLoop(MoveTo(ns, NoteInFolder(ns, AllFolders(fs)[from].id, noteId),
                                  targetFolder.id),
                           fs, noteIds, i + 1, targetFolder, movedCount + 1, failed, throwsAt)

\* a script that handles an id once however often it is listed
batchMoveNotesScriptDistinctIds(ns, fs, noteIds, targetFolderId, throwsAt) ==
    LET to == FindTargetFolder(fs, AllFolderIndices(fs), 1, targetFolderId)
        first == SelectSeq([i \in 1..Len(noteIds) |-> i],
                           LAMBDA i : \A j \in 1..(i - 1) : noteIds[j] # noteIds[i])
    IN IF to = 0 THEN ScriptThrow(FolderNotFound(targetFolderId), ns)
       ELSE BatchLoop(ns, fs, [k \in 1..Len(first) |-> noteIds[first[k]]], 1, fs[to], 0, <<>>,
                      throwsAt)

batchMoveNotesScript(ns, fs, noteIds, targetFolderId, throwsAt) ==
    LET to == FindTargetFolder(fs, AllFolderIndices(fs), 1, targetFolderId)
    IN IF to = 0 THEN ScriptThrow(FolderNotFound(targetFolderId), ns)
       ELSE BatchLoop(ns, fs, noteIds, 1, fs[to], 0, <<>>, throwsAt)

batchMoveNotes(ns, fs, noteIds, targetFolderId, throwsAt) ==
    LET o == batchMoveNotesScript(ns, fs, noteIds, targetFolderId, throwsAt)
        r == runJxa(o)
    IN [store |-> o.store,
        ret |-> IF r.ok THEN r ELSE Rejected(<<"Failed to batch move notes: ">> \o r.message)]

----------------------------------------------------------------------------
(* moveNote, listFolders and createFolder of version 1.1.0 *)

moveNoteV1Script(ns, fs, noteId, targetFolderId, moveThrows) ==
    LET from == FolderOfNote(ns, fs, noteId)
        to == FindTargetFolder(fs, AllFolderIndices(fs), 1, targetFolderId)
    IN IF from = 0 THEN ScriptThrow(NoteNotFound(noteId), ns)
       ELSE IF to = 0 THEN ScriptThrow(FolderNotFound(targetFolderId), ns)
       ELSE IF moveThrows THEN ScriptThrow(MoveError, ns)
       ELSE LET targetNote == NoteInFolder(ns, AllFolders(fs)[from].id, noteId)
            IN ScriptOk([success |-> TRUE,
                         noteId |-> noteId,
                         noteName |-> ns[targetNote].name,
                         targetFolderId |-> fs[to].id,
                         targetFolderName |-> fs[to].name],
                        MoveTo(ns, targetNote, fs[to].id))

moveNoteV1(ns, fs, noteId, targetFolderId, moveThrows) ==
    LET o == moveNoteV1Script(ns, fs, noteId, targetFolderId, moveThrows)
        r == runJxa(o)
    IN [store |-> o.store,
        ret |-> IF r.ok THEN r
                ELSE IF Includes(r.message, <<"Note not found">>)
                        \/ Includes(r.message, <<"Folder not found">>)
                     THEN Rejected(r.message)
                ELSE Rejected(<<"Failed to move note: ">> \o r.message)]

\* processRecursive(folder, parentPath), folder an index into fs
RECURSIVE processRecursive(_, _, _, _)
processRecursive(ns, fs, folder, parentPath) ==
    LET fName == fs[folder].name
        fId == fs[folder].id
        fPath == IF parentPath # <<>> THEN parentPath \o <<"/">> \o fName ELSE fName
        sub == SubfolderIndices(fs, fId)
    IN [id |-> fId,
        name |-> fName,
        accountName |-> fs[folder].account,
        noteCount |-> Len(FolderNotes(ns, fId)),
        path |-> fPath,
        subfolders |-> [k \in 1..Len(sub) |-> processRecursive(ns, fs, sub[k], fPath)]]

\* the folders of account a that listFolders keeps: allFolderIds
KnownFolders(fs, a) ==
    SelectSeq([i \in 1..Len(fs) |-> i],
              LAMBDA i : fs[i].account = a /\ fs[i].name # RecentlyDeleted)

\* the ids of the folders inside a kept folder: childIds
ChildIds(fs, a) ==
    LET known == KnownFolders(fs, a)
    IN {fs[k].id : k \in UNION {{SubfolderIndices(fs, fs[known[j]].id)[m] :
                                   m \in 1..Len(SubfolderIndices(fs, fs[known[j]].id))} :
                                j \in 1..Len(known)}}

listFoldersV1Script(ns, fs) ==
    ScriptOk(Flatten([a \in 1..NumAccounts |->
                LET roots == SelectSeq(KnownFolders(fs, a),
                                       LAMBDA i : fs[i].id \notin ChildIds(fs, a))
                IN [j \in 1..Len(roots) |-> processRecursive(ns, fs, roots[j], <<>>)]]),
             ns)

listFoldersV1(ns, fs) ==
    LET r == runJxa(listFoldersV1Script(ns, fs))
    IN IF r.ok THEN r ELSE Rejected(<<"Failed to list folders: ">> \o r.message)

ParentNotFound(id) == <<"Parent folder not found", ": ">> \o id

\* the parent folder the script finds, as an index into AllFolders(fs); 0 for null
FoundParent(fs, parentId) == FirstIndex(AllFolders(fs), LAMBDA f : f.id = parentId)

\* parentContainer.folders.whose({name: newFolderName}): the container is the
\* folder found, or the first account, whose folders are those at every depth
ExistingFolders(fs, newFolderName, parentId) ==
    IF Truthy(parentId)
    THEN SelectSeq(fs, LAMBDA f : ParentOf(f) = parentId /\ f.name = newFolderName)
    ELSE SelectSeq(AccountFolders(fs, 1), LAMBDA f : f.name = newFolderName)

\* notesApp.make({new: "folder", at: parentContainer, withProperties: {name}});
\* newId is the id the application gives the folder
MakeFolder(fs, newFolderName, parentId, newId) ==
    Append(fs, IF Truthy(parentId)
               THEN [id |-> newId, name |-> newFolderName,
                     account |-> AllFolders(fs)[FoundParent(fs, parentId)].account,
                     parent |-> parentId]
               ELSE [id |-> newId, name |-> newFolderName, account |-> 1])

\* a script that makes the folder without looking for one of that name
createFolderScriptAlwaysMakes(fs, newFolderName, parentId, newId) ==
    IF Truthy(parentId) /\ FoundParent(fs, parentId) = 0
    THEN ScriptThrow(ParentNotFound(parentId), fs)
    ELSE ScriptOk([id |-> newId, name |-> newFolderName],
                  MakeFolder(fs, newFolderName, parentId, newId))

\* the script of createFolder, run without interruption; its store is the folders
createFolderScript(fs, newFolderName, parentId, newId) ==
    LET existing == ExistingFolders(fs, newFolderName, parentId)
    IN IF Truthy(parentId) /\ FoundParent(fs, parentId) = 0
       THEN ScriptThrow(ParentNotFound(parentId), fs)
       ELSE IF Len(existing) > 0
       THEN ScriptOk([id |-> existing[1].id, name |-> existing[1].name], fs)
       ELSE ScriptOk([id |-> newId, name |-> newFolderName],
                     MakeFolder(fs, newFolderName, parentId, newId))

createFolder(fs, name, parentFolderId, newId) ==
    LET o == createFolderScript(fs, name, parentFolderId, newId)
        r == runJxa(o)
    IN [store |-> o.store,
        ret |-> IF r.ok THEN r
                ELSE Rejected(<<"Failed to create folder: ">> \o r.message)]

----------------------------------------------------------------------------
(* listFolders *)

listFoldersScript(ns, fs) ==
    LET kept == SelectSeq(AllFolders(fs), LAMBDA f : f.name # RecentlyDeleted)
    IN ScriptOk([j \in 1..Len(kept) |->
                    [id |-> kept[j].id,
                     name |-> kept[j].name,
                     accountName |-> kept[j].account,
                     noteCount |-> Len(FolderNotes(ns, kept[j].id))]],
                ns)

listFolders(ns, fs) ==
    LET r == runJxa(listFoldersScript(ns, fs))
    IN IF r.ok THEN r ELSE Rejected(<<"Failed to list folders: ">> \o r.message)

----------------------------------------------------------------------------
(* index.ts: the handler of tools/call requests *)

\* a value of the request's arguments, with its JSON type
Json(type, value) == [type |-> type, value |-> value]

\* the input schemas: the keys that must hold a string, the types of the keys
\* that may be absent, and the values of the enums
ArgsSchemas ==
    [list_notes |->
         [required |-> {},
          optional |-> [limit |-> "number", includePreview |-> "boolean",
                        folderId |-> "string", sortBy |-> "string",
                        sortOrder |-> "string", filter |-> "object"],
          enums |-> [sortBy |-> {"modificationDate", "creationDate", "title", "folder"},
                     sortOrder |-> {"asc", "desc"}]],
     search_notes |->
         [required |-> {"query"}, optional |-> [limit |-> "number"], enums |-> <<>>],
     read_note |-> [required |-> {"nameOrId"}, optional |-> <<>>, enums |-> <<>>],
     create_note |-> [required |-> {"title", "body"}, optional |-> <<>>, enums |-> <<>>],
     update_note |->
         [required |-> {"noteId"}, optional |-> [title |-> "string", body |-> "string"],
          enums |-> <<>>],
     move_note |->
         [required |-> {"noteId", "targetFolderId"}, optional |-> <<>>, enums |-> <<>>],
     get_note_for_summary |->
         [required |-> {"nameOrId"}, optional |-> <<>>, enums |-> <<>>],
     delete_note |-> [required |-> {"noteId"}, optional |-> <<>>, enums |-> <<>>]]

\* the keys of the issues of a ZodError, none when args satisfies the schema
Issues(schema, args) ==
    {k \in schema.required : k \notin DOMAIN args \/ args[k].type # "string"}
    \cup {k \in DOMAIN schema.optional \cap DOMAIN args :
             \/ args[k].type # schema.optional[k]
             \/ k \in DOMAIN schema.enums /\ args[k].value \notin schema.enums[k]}

\* parsed.key, with the schema's default when the key is absent
Parsed(args, key, default) == IF key \in DOMAIN args THEN args[key].value ELSE default

\* the options object list_notes hands to listNotesExtended, without the keys
\* whose value is undefined
OptionsOf(args) ==
    [k \in {"limit", "includePreview", "sortBy", "sortOrder"}
           \cup ({"folderId", "filter"} \cap DOMAIN args) |->
        IF k = "limit" THEN Parsed(args, k, 100)
        ELSE IF k = "includePreview" THEN Parsed(args, k, FALSE)
        ELSE IF k = "sortBy" THEN Parsed(args, k, "modificationDate")
        ELSE IF k = "sortOrder" THEN Parsed(args, k, "desc")
        ELSE args[k].value]

\* what the body of the try block comes to: the store, the service function
\* that ran and what it returned or what was thrown
Outcome(store, ran, ret) == [store |-> store, ran |-> ran, ret |-> ret]

\* the same for a service function that writes to the store
Wrote(ran, r) == Outcome(r.store, ran, r.ret)

Thrown(zod, message) == [ok |-> FALSE, zod |-> zod, message |-> message]

\* the switch on the tool's name; env holds the choices of the application:
\* the folder of a new note and whether notesApp.move throws
Dispatch(ns, fs, name, args, env) ==
    IF name \notin DOMAIN ArgsSchemas \cup {"list_folders"}
    THEN Outcome(ns, "none", Thrown(FALSE, <<"Unknown tool: ", name>>))
    ELSE IF name = "list_folders"
    THEN Outcome(ns, "listFolders", listFolders(ns, fs))
    ELSE IF Issues(ArgsSchemas[name], args) # {}
    THEN Outcome(ns, "none", Thrown(TRUE, <<"issues">>))
    ELSE IF name = "list_notes"
    THEN Outcome(ns, "listNotesExtended", listNotesExtended(ns, fs, OptionsOf(args)))
    ELSE IF name = "search_notes"
    THEN Outcome(ns, "searchNotes",
                 searchNotes(ns, args.query.value, Parsed(args, "limit", 50), {}))
    ELSE IF name = "read_note"
    THEN Outcome(ns, "readNote", readNote(ns, args.nameOrId.value))
    ELSE IF name = "get_note_for_summary"
    THEN Outcome(ns, "getNoteForSummary", getNoteForSummary(ns, fs, args.nameOrId.value))
    ELSE IF name = "create_note"
    THEN Wrote("createNote", createNote(ns, fs, args.title.value, args.body.value,
                                        env.newId, env.at, env.now))
    ELSE IF name = "update_note"
    THEN Wrote("updateNote", updateNote(ns, args.noteId.value,
                                        Parsed(args, "title", undefined),
                                        Parsed(args, "body", undefined), env.now))
    ELSE IF name = "move_note"
    THEN Wrote("moveNote", moveNote(ns, fs, args.noteId.value, args.targetFolderId.value,
                                    env.moveThrows))
    ELSE Wrote("deleteNote", deleteNote(ns, fs, args.noteId.value))

McpError(code, message) == [ok |-> FALSE, code |-> code, message |-> message]

\* a catch that does not tell a ZodError from the other errors
CatchNoZodCase(name, o) ==
    IF o.ret.ok THEN o
    ELSE Outcome(o.store, o.ran,
                 McpError("InternalError",
                          <<"Failed to execute ", name, ": ">> \o o.ret.message))

\* the catch of the handler turns what was thrown into an McpError
Catch(name, o) ==
    IF o.ret.ok THEN o
    ELSE IF "zod" \in DOMAIN o.ret /\ o.ret.zod
    THEN Outcome(o.store, o.ran,
                 McpError("InvalidParams", <<"Invalid parameters: ">> \o o.ret.message))
    ELSE Outcome(o.store, o.ran,
                 McpError("InternalError",
                          <<"Failed to execute ", name, ": ">> \o o.ret.message))

\* the handler: the try block and its catch
CallTool(ns, fs, name, args, env) == Catch(name, Dispatch(ns, fs, name, args, env))

----------------------------------------------------------------------------
(* jxa-adapter: what runJxa does with the process, its output and the timer *)

\* the texts the wrapper prints for a value "n1" and for an error "boom"
SuccessText == "{\"status\":\"success\",\"data\":\"n1\"}"
ErrorText == "{\"status\":\"error\",\"message\":\"boom\"}"

\* JSON.parse of an output text; any other text is not JSON
JSONparse(text) ==
    IF text = <<SuccessText>> THEN [status |-> "success", data |-> <<"n1">>]
    ELSE IF text = <<ErrorText>> THEN [status |-> "error", message |-> <<"boom">>]
    ELSE [status |-> "SyntaxError", message |-> <<"Unexpected token">>]

\* the catch of runJxa
FailedToExecute(message) == Rejected(<<"Failed to execute JXA: ">> \o message)

\* a decoding that looks at stdout first
DecodeOutputStdoutFirst(stdout, stderr) ==
    LET outputText == IF Trim(stdout) # <<>> THEN Trim(stdout)
                      ELSE IF Trim(stderr) # <<>> THEN Trim(stderr)
                      ELSE <<>>
    IN IF outputText = <<>> THEN Resolved(null)
       ELSE LET output == JSONparse(outputText)
            IN IF output.status = "SyntaxError" THEN FailedToExecute(output.message)
               ELSE IF output.status = "error"
               THEN FailedToExecute(<<"JXA Error: ">> \o output.message)
               ELSE Resolved(output.data)

\* from the two channels of the process that has exited to what runJxa settles with
DecodeOutput(stdout, stderr) ==
    LET outputText == IF Trim(stderr) # <<>> THEN Trim(stderr)
                      ELSE IF Trim(stdout) # <<>> THEN Trim(stdout)
                      ELSE <<>>
    IN IF outputText = <<>> THEN Resolved(null)
       ELSE LET output == JSONparse(outputText)
            IN IF output.status = "SyntaxError" THEN FailedToExecute(output.message)
               ELSE IF output.status = "error"
               THEN FailedToExecute(<<"JXA Error: ">> \o output.message)
               ELSE Resolved(output.data)

TimeoutError(timeout) == <<"JXA execution timeout after ", ToString(timeout), "ms">>

\* a race in which the promise that settles last decides
RaceLastWins(call, ret) == [call EXCEPT !.settled = TRUE, !.ret = ret]

\* await Promise.race([child, timeoutPromise]): the promise that settles first
\* decides what the call settles with
Race(call, ret) == IF call.settled THEN call ELSE [call EXCEPT !.settled = TRUE, !.ret = ret]

----------------------------------------------------------------------------
(* jxa-adapter: how runJxa hands the arguments to the script *)

\* a JSON value: a string (its characters in text), null, or an array (its items)
JsonValue(type, text, items) == [type |-> type, text |-> text, items |-> items]
JsonString(s) == JsonValue("string", s, <<>>)
JsonNull == JsonValue("null", <<>>, <<>>)
JsonArray(items) == JsonValue("array", <<>>, items)

\* JSON.stringify of one character of a string
QuoteChar(c) ==
    IF c = "\"" THEN <<"\\", "\"">>
    ELSE IF c = "\\" THEN <<"\\", "\\">>
    ELSE IF c = "\n" THEN <<"\\", "n">>
    ELSE <<c>>

\* JSON.stringify
RECURSIVE JSONstringify(_)
JSONstringify(v) ==
    IF v.type = "string"
    THEN <<"\"">> \o Flatten([i \in 1..Len(v.text) |-> QuoteChar(v.text[i])]) \o <<"\"">>
    ELSE IF v.type = "null" THEN <<"n", "u", "l", "l">>
    ELSE <<"[">> \o Flatten([i \in 1..Len(v.items) |->
                                (IF i > 1 THEN <<",">> ELSE <<>>) \o JSONstringify(v.items[i])])
               \o <<"]">>

\* the single quotes are escaped before the backslashes are doubled
EscapeQuotesFirst(serializedArgs) ==
    ReplaceAll(ReplaceAll(serializedArgs, "'", <<"\\", "'">>), "\\", <<"\\", "\\">>)

\* serializedArgs.replace(/\\/g, '\\\\').replace(/'/g, "\\'")
EscapeForLiteral(serializedArgs) ==
    ReplaceAll(ReplaceAll(serializedArgs, "\\", <<"\\", "\\">>), "'", <<"\\", "'">>)

SyntaxError == [ok |-> FALSE, value |-> JsonNull, rest |-> <<>>, next |-> 0]

\* the script's engine reads a single-quoted string literal from the character
\* after its opening quote: a backslash takes the next character with it, a
\* bare quote ends the literal, a bare newline is a syntax error
RECURSIVE StringLiteral(_, _, _)
StringLiteral(code, i, value) ==
    IF i > Len(code) THEN SyntaxError
    ELSE IF code[i] = "'"
    THEN [ok |-> TRUE, value |-> JsonString(value), rest |-> SubSeq(code, i + 1, Len(code)),
          next |-> i + 1]
    ELSE IF code[i] = "\n" THEN SyntaxError
    ELSE IF code[i] = "\\"
    THEN IF i = Len(code) THEN SyntaxError
         ELSE StringLiteral(code, i + 2,
                            IF code[i + 1] = "\n" THEN value
                            ELSE Append(value, IF code[i + 1] = "n" THEN "\n" ELSE code[i + 1]))
    ELSE StringLiteral(code, i + 1, Append(value, code[i]))

\* JSON.parse in the script: a string from the character after its opening quote
RECURSIVE ParseString(_, _, _)
ParseString(text, i, s) ==
    IF i > Len(text) THEN SyntaxError
    ELSE IF text[i] = "\"" THEN [ok |-> TRUE, value |-> JsonString(s), rest |-> <<>>, next |-> i + 1]
    ELSE IF text[i] = "\n" THEN SyntaxError
    ELSE IF text[i] = "\\"
    THEN IF i < Len(text) /\ text[i + 1] \in {"\"", "\\", "n"}
         THEN ParseString(text, i + 2, Append(s, IF text[i + 1] = "n" THEN "\n" ELSE text[i + 1]))
         ELSE SyntaxError
    ELSE ParseString(text, i + 1, Append(s, text[i]))

\* JSON.parse in the script: a value from character i, the items of an array
\* after the value v
RECURSIVE ParseValue(_, _)
RECURSIVE ParseItems(_, _, _)
ParseValue(text, i) ==
    IF i > Len(text) THEN SyntaxError
    ELSE IF text[i] = "\"" THEN ParseString(text, i + 1, <<>>)
    ELSE IF text[i] = "n"
    THEN IF i + 3 <= Len(text) /\ SubSeq(text, i, i + 3) = <<"n", "u", "l", "l">>
         THEN [ok |-> TRUE, value |-> JsonNull, rest |-> <<>>, next |-> i + 4]
         ELSE SyntaxError
    ELSE IF text[i] = "["
    THEN IF i < Len(text) /\ text[i + 1] = "]"
         THEN [ok |-> TRUE, value |-> JsonArray(<<>>), rest |-> <<>>, next |-> i + 2]
         ELSE ParseItems(text, ParseValue(text, i + 1), <<>>)
    ELSE SyntaxError

ParseItems(text, v, items) ==
    IF ~v.ok \/ v.next > Len(text) THEN SyntaxError
    ELSE IF text[v.next] = ","
    THEN ParseItems(text, ParseValue(text, v.next + 1), Append(items, v.value))
    ELSE IF text[v.next] = "]"
    THEN [ok |-> TRUE, value |-> JsonArray(Append(items, v.value)), rest |-> <<>>,
          next |-> v.next + 1]
    ELSE SyntaxError

\* JSON.parse of a whole text
WholeText(text, v) == IF v.ok /\ v.next = Len(text) + 1 THEN v ELSE SyntaxError
JSONparseArgs(text) == WholeText(text, ParseValue(text, 1))

\* const args = JSON.parse('<the escaped serializedArgs>'); as the script's
\* engine runs it: the literal must end at the quote runJxa wrote, what
\* follows a literal that ends earlier is code
ParsedLiteral(literal) ==
    IF ~literal.ok THEN SyntaxError
    ELSE IF literal.rest # <<>> THEN [SyntaxError EXCEPT !.rest = literal.rest]
    ELSE JSONparseArgs(literal.value.text)

ScriptArgs(args) ==
    ParsedLiteral(StringLiteral(EscapeForLiteral(JSONstringify(JsonArray(args))) \o <<"'">>,
                                1, <<>>))

----------------------------------------------------------------------------
(* index.ts: the process, main() and the listeners of uncaught errors *)

\* error.code, error.errno: a property the value does not have reads as undefined
Property(error, key) ==
    IF error.type = "object" /\ key \in DOMAIN error.value THEN error.value[key] ELSE undefined

\* values whose properties cannot be read
Nullish(v) == v.type \in {"null", "undefined"}

\* console.error(line)
Logged(proc, line) == [proc EXCEPT !.stderr = Append(@, line)]

\* process.exit(code)
Exit(proc, code) == [proc EXCEPT !.state = "exited", !.exitCode = code]

\* a listener that ends the process whatever was thrown
uncaughtExceptionAlwaysExits(proc, error) ==
    IF Nullish(error) THEN Exit(proc, 7)
    ELSE Exit(Logged(proc, "Uncaught exception:"), 1)

\* the listener of 'uncaughtException'; reading error.code of null or undefined
\* throws inside the listener, and Node ends a process whose listener throws
\* with exit code 7
uncaughtException(proc, error) ==
    IF Nullish(error) THEN Exit(proc, 7)
    ELSE IF Property(error, "code") = <<"EPIPE">> \/ Property(error, "errno") = <<"EPIPE">>
    THEN Logged(proc, "Client disconnected (EPIPE)")
    ELSE Exit(Logged(proc, "Uncaught exception:"), 1)

\* the listener of 'unhandledRejection'
unhandledRejection(proc, reason) == Logged(proc, "Unhandled rejection at:")

\* main() and its catch: the transport connects or the process exits with 1
main(connects) ==
    LET proc == [op |-> "process", args |-> <<"main">>, state |-> "running", exitCode |-> 0,
                 stderr |-> <<"Apple Notes MCP Server starting...">>]
    IN IF connects THEN Logged(proc, "Apple Notes MCP Server running on stdio")
       ELSE Exit(Logged(proc, "Failed to start server:"), 1)

----------------------------------------------------------------------------
(* The environment: the folders and notes of the application, the arguments *)
(* a client may send                                                        *)

Folder(id, name, account) == [id |-> id, name |-> name, account |-> account]

InitFolders ==
    << Folder(<<"f1">>, <<"Notes">>, 1), Folder(<<"fd1">>, RecentlyDeleted, 1),
       Folder(<<"fd2">>, RecentlyDeleted, 2), Folder(<<"f2">>, <<"Work">>, 2) >>

Note(id, name, text, mod, created, folder) ==
    [id |-> id, name |-> name, body |-> <<"<div>">> \o text \o <<"</div>">>,
     plaintext |-> text, modificationDate |-> mod, creationDate |-> created,
     folder |-> folder]

\* the ids the application hands out, in order
IdPool == << <<"n1">>, <<"n2">>, <<"n3">>, <<"n4">>, <<"n5">> >>

Dates == 1..MaxDate

\* the current time of the application: no stored date is later
Now == MaxDate

Limits == 0..MaxLimit

\* identifiers a client may pass: ids, names, and strings matching nothing
Identifiers ==
    {<<"n1">>, <<"n2">>, <<"n3">>, <<"a">>, <<"zz">>, <<"Note not found">>}

\* folder ids a client may pass
FolderArgs ==
    {<<"f1">>, <<"f2">>, <<"fd1">>, <<"fx">>, <<"Note not found">>}

Queries == {<<>>, <<"a">>, <<"A", "b">>, <<"z">>}

Titles == {<<"A", "b">>}
Bodies == {<<"<", "a">>}

Chars == {"&", "<", ">", "\"", "'", "a"}

\* all sequences over S of length at most n
SeqsUpTo(S, n) == UNION {[1..k -> S] : k \in 0..n}

\* bodies of MAX_BODY_SIZE - 1, MAX_BODY_SIZE and MAX_BODY_SIZE + 1 characters
LongBodies == {<<BigBlock>>, <<BigBlock, "a">>, <<"<", BigBlock>>, <<BigBlock, "a", "a">>}

\* an options object with no key, and the objects with the one key or without it
NoOptions == <<>>
Optional(key, values) == {NoOptions} \cup {key :> v : v \in values}

\* the date strings a client may pass as a bound of a filter
FilterDates == {toISOString(d) : d \in Dates} \cup {NotADate}

DateKeys == {"createdAfter", "createdBefore", "modifiedAfter", "modifiedBefore"}

\* every filter object over the date bounds and titleContains
Filters ==
    {d @@ t : d \in UNION {[K -> FilterDates] : K \in SUBSET DateKeys},
              t \in Optional("titleContains", {<<>>, <<"A">>})}

SortBys == {"modificationDate", "creationDate", "title", "folder"}
SortOrders == {"asc", "desc"}

\* the options that choose an order, a limit and a folder
SortOptions ==
    {b @@ o @@ l @@ f @@ g :
        b \in Optional("sortBy", SortBys), o \in Optional("sortOrder", SortOrders),
        l \in Optional("limit", Limits), f \in Optional("folderId", {<<"f1">>}),
        g \in Optional("filter", {"modifiedAfter" :> toISOString(MaxDate)})}

\* the notes beyond the three of a small store: as many as one fetch returns
FillerCount == 10000
FillerNote(i) == Note(<<ToString(i)>>, <<"z">>, <<"x">>, MaxDate, 1, <<"f1">>)

\* the folders of a store with folders inside folders: f3 in f1, f4 in f3, f5
\* in f2
NestedFolders ==
    InitFolders \o << [id |-> <<"f3">>, name |-> <<"a">>, account |-> 1, parent |-> <<"f1">>],
                      [id |-> <<"f4">>, name |-> <<"b">>, account |-> 1, parent |-> <<"f3">>],
                      [id |-> <<"f5">>, name |-> <<"a">>, account |-> 2, parent |-> <<"f2">>] >>

\* the ids the application gives the folders it makes, in order
FolderIdPool == << <<"f6">>, <<"f7">>, <<"f8">>, <<"f9">> >>

\* the tools a client may name: the registered ones and two that are not
ToolNames == DOMAIN ArgsSchemas \cup {"list_folders"}
UnknownTools == {"batch_move_notes", "create_folder"}

Str(s) == Json("string", s)

\* the arguments a client may send, one after the other: with and without the
\* keys a schema requires, with values of the right and of the wrong type
ToolArgs ==
    << NoOptions,
     [noteId |-> Str(<<"n1">>)], [noteId |-> Str(<<"zz">>)], [noteId |-> Json("number", 1)],
     [noteId |-> Str(<<"n1">>), targetFolderId |-> Str(<<"f2">>)],
     [noteId |-> Str(<<"n1">>), targetFolderId |-> Str(<<"fx">>)],
     [noteId |-> Str(<<"n1">>), targetFolderId |-> Json("number", 2)],
     [noteId |-> Str(<<"n1">>), title |-> Str(<<"A", "b">>)],
     [noteId |-> Str(<<"n1">>), body |-> Json("boolean", TRUE)],
     [noteId |-> Str(<<"n1">>), body |-> Str(<<BigBlock, "a", "a">>)],
     [nameOrId |-> Str(<<"n1">>)], [nameOrId |-> Str(<<"zz">>)],
     [query |-> Str(<<"a">>)], [query |-> Str(<<"a">>), limit |-> Str(<<"1">>)],
     [query |-> Str(<<"a">>), limit |-> Json("number", 1)],
     [title |-> Str(<<"A", "b">>), body |-> Str(<<"<", "a">>)],
     [title |-> Str(<<"A", "b">>)],
     [limit |-> Json("number", 1), sortBy |-> Str("title")],
     [sortBy |-> Str("size")],
     [folderId |-> Str(<<"f1">>),
      filter |-> Json("object", "titleContains" :> <<"A">>)],
     [filter |-> Json("string", <<"a">>)] >>

\* what the process may write on a channel
\* what may be thrown or be the reason of a rejection: any JavaScript value
ThrownValues ==
    << Json("object", [code |-> <<"EPIPE">>, errno |-> <<"-32">>]),
       Json("object", [errno |-> <<"EPIPE">>]),
       Json("object", [code |-> <<"ECONNRESET">>, errno |-> <<"-54">>]),
       Json("object", [message |-> <<"boom">>]),
       Json("string", <<"EPIPE">>),
       Json("null", null),
       Json("undefined", undefined) >>

\* the characters of the arguments handed to a script
ArgChars == {"a", "n", ",", "'", "\"", "\\", "\n"}

\* args arrays: one string, two short strings, a string beside null or an array
ArgsArrays ==
    {<<>>}
    \cup {<<JsonString(s)>> : s \in SeqsUpTo(ArgChars, MaxLen)}
    \cup {<<JsonString(s), JsonString(t)>> : s, t \in SeqsUpTo(ArgChars, 1)}
    \cup {<<JsonString(s), v>> :
            s \in SeqsUpTo(ArgChars, 1),
            v \in {JsonNull, JsonArray(<<>>),
                   JsonArray(<<JsonString(<<"'">>), JsonString(<<"\\", "n">>)>>)}}

Texts == {<<>>, <<" ">>, <<SuccessText>>, <<" ", SuccessText, " ">>, <<ErrorText>>,
          <<"warning">>}

NoCall == [op |-> "none", args |-> <<>>, ret |-> Resolved(<<>>)]
Call(op, args, ret) == [op |-> op, args |-> args, ret |-> ret]

TypeOK ==
    /\ \A i \in 1..Len(notes) : notes[i].folder \in FolderIds(folders)
    /\ Cardinality(NoteIdsOf(notes)) = Len(notes)

----------------------------------------------------------------------------
(* Initial states *)

\* two notes: the store the server starts from
Init ==
    /\ folders = InitFolders
    /\ \E g2 \in {<<"f1">>, <<"f2">>, <<"fd1">>} :
         notes = << Note(<<"n1">>, <<"a">>, <<"b">>, 1, 1, <<"f1">>),
                    Note(<<"n2">>, <<"n1">>, <<"a">>, MaxDate, 1, g2) >>
    /\ result = NoCall
    /\ deleted = {}

\* three notes with any folders, dates and a choice of names: the stores queried
InitQuery ==
    /\ folders = InitFolders
    /\ \E g1, g2, g3 \in {<<"f1">>, <<"f2">>, <<"fd1">>} :
       \E d1, d2, d3 \in Dates :
       \E m1 \in {<<"a">>, <<"n2">>}, m2 \in {<<"A", "b">>, <<"a">>},
          m3 \in {<<"b">>, <<"n2">>} :
         notes = << Note(<<"n1">>, m1, <<"b", "a">>, d1, 1, g1),
                    Note(<<"n2">>, m2, <<"x">>, d2, 1, g2),
                    Note(<<"n3">>, m3, <<"A", "B">>, d3, 1, g3) >>
    /\ result = NoCall
    /\ deleted = {}

\* three notes in any folders: the stores one call is made on
InitStore ==
    /\ folders = InitFolders
    /\ \E g1, g2, g3 \in FolderIds(InitFolders) :
         notes = << Note(<<"n1">>, <<"n2">>, <<"b">>, 1, 1, g1),
                    Note(<<"n2">>, <<"a">>, <<"x">>, MaxDate, 1, g2),
                    Note(<<"n3">>, <<"a">>, <<"c">>, 1, 1, g3) >>
    /\ result = NoCall
    /\ deleted = {}

\* three notes with a choice of dates and folders: the stores listed
InitExtended ==
    /\ folders = InitFolders
    /\ \E d1, d2, c1 \in Dates, g1 \in {<<"f1">>, <<"f2">>, <<"fd1">>} :
         notes = << Note(<<"n1">>, <<"a">>, <<"b">>, d1, c1, g1),
                    Note(<<"n2">>, <<"A", "b">>, <<"x">>, d2, 1, <<"f1">>),
                    Note(<<"n3">>, <<"b">>, <<"c">>, 1, MaxDate, <<"f2">>) >>
    /\ result = NoCall
    /\ deleted = {}

\* a store of more notes than one fetch returns: one or two notes with a choice
\* of dates, then FillerCount notes modified at the latest date
InitLarge ==
    /\ folders = InitFolders
    /\ \E d1 \in Dates, g1 \in {<<"f1">>, <<"f2">>}, two \in BOOLEAN :
         notes = << Note(<<"n1">>, <<"a">>, <<"b">>, d1, 1, g1) >>
                 \o (IF two THEN << Note(<<"n2">>, <<"b">>, <<"x">>, 1, MaxDate, <<"f1">>) >>
                     ELSE <<>>)
                 \o [i \in 1..FillerCount |-> FillerNote(i)]
    /\ result = NoCall
    /\ deleted = {}

\* two notes in any folders of a store with folders inside folders
InitNested ==
    /\ folders = NestedFolders
    /\ \E g1 \in {<<"f1">>, <<"f4">>, <<"fd1">>}, g2 \in {<<"f2">>, <<"f5">>} :
         notes = << Note(<<"n1">>, <<"a">>, <<"b">>, 1, 1, g1),
                    Note(<<"n2">>, <<"b">>, <<"x">>, MaxDate, 1, g2) >>
    /\ result = NoCall
    /\ deleted = {}

\* one note: the store the text arguments are written to
InitText ==
    /\ folders = InitFolders
    /\ notes = << Note(<<"n1">>, <<"a">>, <<"b">>, 1, 1, <<"f1">>) >>
    /\ result = NoCall
    /\ deleted = {}

----------------------------------------------------------------------------
(* Actions: one per service function, over the arguments the client may send *)

ListNotesOf(limits, previews, folderIds) ==
    \E limit \in limits, includePreview \in previews, folderId \in folderIds :
        /\ result' = Call("listNotes", <<limit, includePreview, folderId>>,
                          listNotes(notes, folders, limit, includePreview, folderId))
        /\ UNCHANGED <<notes, folders, deleted>>

ListNotesExtendedOf(optionses) ==
    \E options \in optionses :
        /\ result' = Call("listNotesExtended", <<options>>,
                          listNotesExtended(notes, folders, options))
        /\ UNCHANGED <<notes, folders, deleted>>

SearchNotesOf(queries, limits, unreadables) ==
    \E query \in queries, limit \in limits, unreadable \in unreadables :
        /\ result' = Call("searchNotes", <<query, limit, unreadable>>,
                          searchNotes(notes, query, limit, unreadable))
        /\ UNCHANGED <<notes, folders, deleted>>

ReadNoteOf(ids) ==
    \E nameOrId \in ids :
        /\ result' = Call("readNote", <<nameOrId>>, readNote(notes, nameOrId))
        /\ UNCHANGED <<notes, folders, deleted>>

GetNoteForSummaryOf(ids) ==
    \E nameOrId \in ids :
        /\ result' = Call("getNoteForSummary", <<nameOrId>>,
                          getNoteForSummary(notes, folders, nameOrId))
        /\ UNCHANGED <<notes, folders, deleted>>

\* the folders the application may put a new note in
LiveFolderIds(fs) == {fs[i].id : i \in {j \in 1..Len(fs) : fs[j].name # RecentlyDeleted}}

CreateNoteOf(titles, bodies) ==
    /\ Len(notes) < MaxNotes
    /\ \E title \in titles, body \in bodies, at \in LiveFolderIds(folders) :
         LET c == createNote(notes, folders, title, body, IdPool[Len(notes) + 1], at, Now)
         IN /\ notes' = c.store
            /\ result' = Call("createNote", <<title, body>>, c.ret)
    /\ UNCHANGED <<folders, deleted>>

UpdateNoteOf(ids, titles, bodies) ==
    \E noteId \in ids, title \in titles, body \in bodies :
        LET u == updateNote(notes, noteId, title, body, Now)
        IN /\ notes' = u.store
           /\ result' = [op |-> "updateNote", args |-> <<noteId, title, body>>,
                         ret |-> u.ret, ran |-> u.ran, sent |-> u.sent]
           /\ UNCHANGED <<folders, deleted>>

MoveNoteOf(ids, targets, throws) ==
    \E noteId \in ids, targetFolderId \in targets, moveThrows \in throws :
        LET m == moveNote(notes, folders, noteId, targetFolderId, moveThrows)
        IN /\ notes' = m.store
           /\ result' = Call("moveNote", <<noteId, targetFolderId>>, m.ret)
           /\ UNCHANGED <<folders, deleted>>

DeleteNoteOf(ids) ==
    \E noteId \in ids :
        LET d == deleteNote(notes, folders, noteId)
        IN /\ notes' = d.store
           /\ result' = Call("deleteNote", <<noteId>>, d.ret)
           /\ deleted' = IF d.ret.ok THEN deleted \cup {noteId} ELSE deleted
           /\ UNCHANGED folders

BatchMoveNotesOf(ids, targets, mayThrow) ==
    \E noteIds \in SeqsUpTo(ids, MaxBatch), targetFolderId \in targets :
    \E throwsAt \in (IF mayThrow THEN SUBSET (1..Len(noteIds)) ELSE {{}}) :
        LET b == batchMoveNotes(notes, folders, noteIds, targetFolderId, throwsAt)
        IN /\ notes' = b.store
           /\ result' = Call("batchMoveNotes", <<noteIds, targetFolderId, throwsAt>>, b.ret)
           /\ UNCHANGED <<folders, deleted>>

MoveNoteV1Of(ids, targets, throws) ==
    \E noteId \in ids, targetFolderId \in targets, moveThrows \in throws :
        LET m == moveNoteV1(notes, folders, noteId, targetFolderId, moveThrows)
        IN /\ notes' = m.store
           /\ result' = Call("moveNoteV1", <<noteId, targetFolderId>>, m.ret)
           /\ UNCHANGED <<folders, deleted>>

ListFoldersNested ==
    /\ result' = Call("listFolders", <<>>, listFoldersV1(notes, folders))
    /\ UNCHANGED <<notes, folders, deleted>>

CreateFolderOf(names, parents) ==
    \E name \in names, parentFolderId \in parents :
        /\ Len(folders) < MaxFolders
        /\ LET newId == FolderIdPool[Len(folders) - Len(NestedFolders) + 1]
               c == createFolder(folders, name, parentFolderId, newId)
           IN /\ folders' = c.store
              /\ result' = Call("createFolder", <<name, parentFolderId>>, c.ret)
        /\ UNCHANGED <<notes, deleted>>

\* the store and the answer after a request that came to c
Answered(name, args, c) ==
    /\ notes' = c.store
    /\ result' = [op |-> "callTool", args |-> <<name, args>>, ret |-> c.ret, ran |-> c.ran]
    /\ deleted' = IF c.ran = "deleteNote" /\ c.ret.ok
                  THEN deleted \cup {args.noteId.value} ELSE deleted
    /\ UNCHANGED folders

CallToolOf(names, argses) ==
    \E name \in names, a \in 1..Len(argses) :
    \E moveThrows \in BOOLEAN, at \in LiveFolderIds(folders) :
        Answered(name, argses[a],
                 CallTool(notes, folders, name, argses[a],
                          [newId |-> IdPool[Len(notes) + 1], at |-> at, now |-> Now,
                           moveThrows |-> moveThrows]))

\* runJxa is called: the process is started and, when its stdin is open, the
\* script is written to it and the timer is set
StartRunJxa ==
    /\ result = NoCall
    /\ \E timeout \in 1..MaxTimeout, stdin \in BOOLEAN :
         result' = [op |-> "runJxa", args |-> <<timeout>>, clock |-> 0,
                    child |-> [state |-> "running", stdout |-> <<>>, stderr |-> <<>>],
                    timer |-> IF stdin THEN "set" ELSE "none",
                    settled |-> ~stdin,
                    ret |-> IF stdin THEN Resolved(<<>>)
                            ELSE FailedToExecute(<<"Could not open stdin for osascript">>)]
    /\ UNCHANGED <<notes, folders, deleted>>

\* the process exits with status 0, having written to its channels
ChildExits ==
    /\ result.op = "runJxa"
    /\ result.child.state = "running"
    /\ \E stdout \in Texts, stderr \in Texts :
         result' = Race([result EXCEPT !.child = [state |-> "exited", stdout |-> stdout,
                                                  stderr |-> stderr]],
                        DecodeOutput(stdout, stderr))
    /\ UNCHANGED <<notes, folders, deleted>>

\* the process exits with another status
ChildFails ==
    /\ result.op = "runJxa"
    /\ result.child.state = "running"
    /\ result' = Race([result EXCEPT !.child.state = "failed"],
                      FailedToExecute(<<"Command failed: ", "osascript -l JavaScript">>))
    /\ UNCHANGED <<notes, folders, deleted>>

\* time passes, up to the moment the timer is due
Tick ==
    /\ result.op = "runJxa"
    /\ result.clock < MaxTimeout + 1
    /\ result.timer = "set" => result.clock < result.args[1]
    /\ result' = [result EXCEPT !.clock = @ + 1]
    /\ UNCHANGED <<notes, folders, deleted>>

\* the callback of setTimeout rejects timeoutPromise
TimerFires ==
    /\ result.op = "runJxa"
    /\ result.timer = "set"
    /\ result.clock >= result.args[1]
    /\ result' = Race([result EXCEPT !.timer = "fired"],
                      FailedToExecute(TimeoutError(result.args[1])))
    /\ UNCHANGED <<notes, folders, deleted>>

\* the process starts: the listeners are installed and main() runs
StartServer ==
    /\ result = NoCall
    /\ \E connects \in BOOLEAN : result' = main(connects)
    /\ UNCHANGED <<notes, folders, deleted>>

\* a value is thrown and nothing catches it
UncaughtExceptionOf(errors) ==
    /\ result.op = "process"
    /\ result.state = "running"
    /\ Len(result.stderr) < MaxLog
    /\ \E e \in 1..Len(errors) :
         result' = [uncaughtException(result, errors[e])
                      EXCEPT !.args = <<"uncaughtException", errors[e]>>]
    /\ UNCHANGED <<notes, folders, deleted>>

\* a promise is rejected and nothing handles it
UnhandledRejectionOf(reasons) ==
    /\ result.op = "process"
    /\ result.state = "running"
    /\ Len(result.stderr) < MaxLog
    /\ \E e \in 1..Len(reasons) :
         result' = [unhandledRejection(result, reasons[e])
                      EXCEPT !.args = <<"unhandledRejection", reasons[e]>>]
    /\ UNCHANGED <<notes, folders, deleted>>

\* runJxa builds the wrapper and the script's engine evaluates its first line
RunJxaArgsOf(argses) ==
    /\ result = NoCall
    /\ \E args \in argses :
         result' = [op |-> "args", args |-> <<args>>, ret |-> ScriptArgs(args)]
    /\ UNCHANGED <<notes, folders, deleted>>

\* batchMoveNotes calls runJxa: the osascript process is started with the
\* script, which finds the target folder, and the timer is set
StartBatchMoveOf(ids, targets) ==
    /\ result = NoCall
    /\ \E noteIds \in SeqsUpTo(ids, MaxBatch), targetFolderId \in targets,
          timeout \in 1..MaxTimeout :
         result' = [op |-> "runJxa", args |-> <<timeout, noteIds, targetFolderId>>, clock |-> 0,
                    child |-> [state |-> "running", i |-> 1, movedCount |-> 0, failed |-> <<>>,
                               late |-> 0],
                    timer |-> "set", settled |-> FALSE, ret |-> Resolved(<<>>)]
    /\ UNCHANGED <<notes, folders, deleted>>

\* the process runs one round of the script's loop over noteIds; nothing stops
\* the process when the call has settled. late counts the notes moved since
\* the call settled
ScriptMovesNext ==
    /\ result.op = "runJxa"
    /\ "i" \in DOMAIN result.child
    /\ result.child.state = "running"
    /\ result.child.i <= Len(result.args[2])
    /\ LET to == FindTargetFolder(folders, AllFolderIndices(folders), 1, result.args[3])
           o == BatchLoop(notes, folders, <<result.args[2][result.child.i]>>, 1, folders[to],
                          0, <<>>, {})
       IN /\ notes' = o.store
          /\ result' = [result EXCEPT
                          !.child.i = @ + 1,
                          !.child.movedCount = @ + o.data.moved,
                          !.child.failed = @ \o o.data.failed,
                          !.child.late = IF result.settled THEN @ + o.data.moved ELSE @]
    /\ UNCHANGED <<folders, deleted>>

\* the loop is over: the script returns, the process writes the envelope and exits
ScriptReturns ==
    /\ result.op = "runJxa"
    /\ "i" \in DOMAIN result.child
    /\ result.child.state = "running"
    /\ result.child.i > Len(result.args[2])
    /\ result' = Race([result EXCEPT !.child.state = "exited"],
                      Resolved([success |-> (Len(result.child.failed) = 0),
                                moved |-> result.child.movedCount,
                                failed |-> result.child.failed]))
    /\ UNCHANGED <<notes, folders, deleted>>

\* two create_folder requests with the same arguments are being handled: each
\* handler has called createFolder, whose runJxa has started a process
StartCreateFoldersOf(names, parents) ==
    /\ result = NoCall
    /\ \E name \in names, parentFolderId \in parents :
         LET started == [pc |-> "started", existing |-> <<>>, ret |-> Resolved(<<>>)]
         IN result' = [op |-> "createFolders", args |-> <<name, parentFolderId>>,
                       calls |-> <<started, started>>, overlapped |-> FALSE]
    /\ UNCHANGED <<notes, folders, deleted>>

\* the script of call p finds the parent and asks it for the folders of the
\* name; the call overlaps the other when that one has looked and not yet made
ScriptLooksUp ==
    /\ result.op = "createFolders"
    /\ \E p \in 1..2 :
         /\ result.calls[p].pc = "started"
         /\ LET r == runJxa(ScriptThrow(ParentNotFound(result.args[2]), folders))
            IN result' =
                 IF Truthy(result.args[2]) /\ FoundParent(folders, result.args[2]) = 0
                 THEN [result EXCEPT
                         !.calls[p].pc = "done",
                         !.calls[p].ret = Rejected(<<"Failed to create folder: ">> \o r.message)]
                 ELSE [result EXCEPT
                         !.calls[p].pc = "looked",
                         !.calls[p].existing =
                             ExistingFolders(folders, result.args[1], result.args[2]),
                         !.overlapped = @ \/ result.calls[3 - p].pc = "looked"]
    /\ UNCHANGED <<notes, folders, deleted>>

\* the script of call p returns the folder it has seen, or makes one and returns it
ScriptMakesOrReturns ==
    /\ result.op = "createFolders"
    /\ \E p \in 1..2 :
         /\ result.calls[p].pc = "looked"
         /\ LET existing == result.calls[p].existing
                newId == FolderIdPool[Len(folders) - Len(NestedFolders) + 1]
            IN IF Len(existing) > 0
               THEN /\ folders' = folders
                    /\ result' = [result EXCEPT
                                    !.calls[p].pc = "done",
                                    !.calls[p].ret = Resolved([id |-> existing[1].id,
                                                               name |-> existing[1].name])]
               ELSE /\ folders' = MakeFolder(folders, result.args[1], result.args[2], newId)
                    /\ result' = [result EXCEPT
                                    !.calls[p].pc = "done",
                                    !.calls[p].ret = Resolved([id |-> newId,
                                                               name |-> result.args[1]])]
    /\ UNCHANGED <<notes, deleted>>

----------------------------------------------------------------------------
(* The server: every service function, called in any order, any number of *)
(* times, with a few representative arguments                              *)

ListNotes == ListNotesOf({MaxLimit}, {FALSE}, {undefined})
SearchNotes == SearchNotesOf({<<"a">>}, {MaxLimit}, {{}})
ReadNote == ReadNoteOf({<<"n1">>, <<"zz">>})
GetNoteForSummary == GetNoteForSummaryOf({<<"n1">>, <<"zz">>})
CreateNote == CreateNoteOf(Titles, Bodies)
UpdateNote == UpdateNoteOf({<<"n1">>, <<"zz">>}, Titles \cup {undefined}, Bodies \cup {undefined})
MoveNote == MoveNoteOf({<<"n1">>, <<"zz">>}, {<<"f2">>, <<"fd1">>, <<"fx">>}, {FALSE})
DeleteNote == DeleteNoteOf({<<"n1">>, <<"n2">>, <<"zz">>})

Next ==
    \/ ListNotes
    \/ SearchNotes
    \/ ReadNote
    \/ GetNoteForSummary
    \/ CreateNote
    \/ UpdateNote
    \/ MoveNote
    \/ DeleteNote

Spec == Init /\ [][Next]_vars

----------------------------------------------------------------------------
(* One call of a read-only function, with any arguments, on each queried store *)

ListNotesAny == ListNotesOf(Limits, BOOLEAN, FolderArgs \cup {undefined, <<>>})
SearchNotesAny ==
    SearchNotesOf(Queries, Limits, {{}} \cup {{notes[i].id} : i \in 1..Len(notes)})
ReadNoteAny == ReadNoteOf(Identifiers)
GetNoteForSummaryAny == GetNoteForSummaryOf(Identifiers)

NextQuery ==
    \/ result = NoCall /\ ListNotesAny
    \/ result = NoCall /\ SearchNotesAny
    \/ result = NoCall /\ ReadNoteAny
    \/ result = NoCall /\ GetNoteForSummaryAny

SpecQuery == InitQuery /\ [][NextQuery]_vars

----------------------------------------------------------------------------
(* One call of a function that looks a note up, with any arguments, on each *)
(* store of three notes                                                     *)

UpdateNoteAny ==
    UpdateNoteOf(Identifiers, Titles \cup {undefined, <<>>},
                 Bodies \cup {undefined, <<>>, <<BigBlock, "a", "a">>})
MoveNoteAny == MoveNoteOf(Identifiers, FolderArgs, BOOLEAN)
DeleteNoteAny == DeleteNoteOf(Identifiers)
BatchMoveNotesAny == BatchMoveNotesOf({<<"n1">>, <<"n2">>, <<"zz">>}, FolderArgs, TRUE)

NextStore ==
    \/ result = NoCall /\ ReadNoteAny
    \/ result = NoCall /\ GetNoteForSummaryAny
    \/ result = NoCall /\ UpdateNoteAny
    \/ result = NoCall /\ MoveNoteAny
    \/ result = NoCall /\ DeleteNoteAny
    \/ result = NoCall /\ BatchMoveNotesAny

SpecStore == InitStore /\ [][NextStore]_vars

----------------------------------------------------------------------------
(* One createNote or updateNote call with any short text, and with bodies *)
(* around the size limit                                                  *)

CreateNoteText == CreateNoteOf(SeqsUpTo(Chars, 1), SeqsUpTo(Chars, MaxLen))

UpdateNoteText ==
    UpdateNoteOf({<<"n1">>, <<"zz">>}, SeqsUpTo(Chars, 1) \cup {undefined},
                 SeqsUpTo(Chars, MaxLen) \cup LongBodies \cup {undefined})

NextText ==
    \/ result = NoCall /\ CreateNoteText
    \/ result = NoCall /\ UpdateNoteText

SpecText == InitText /\ [][NextText]_vars

----------------------------------------------------------------------------
(* One call of listNotesExtended with any filter, or with any order and     *)
(* limit, on each store of three notes                                      *)

ListNotesExtendedFiltered == ListNotesExtendedOf({"filter" :> f : f \in Filters})
ListNotesExtendedSorted == ListNotesExtendedOf(SortOptions)

NextExtended ==
    \/ result = NoCall /\ ListNotesExtendedFiltered
    \/ result = NoCall /\ ListNotesExtendedSorted

SpecExtended == InitExtended /\ [][NextExtended]_vars

----------------------------------------------------------------------------
(* One call of listNotesExtended on each store of more than 10000 notes *)

ListNotesExtendedLarge ==
    ListNotesExtendedOf({b @@ o @@ l :
        b \in Optional("sortBy", SortBys), o \in Optional("sortOrder", SortOrders),
        l \in {"limit" :> n : n \in 1..MaxLimit}})

NextLarge == result = NoCall /\ ListNotesExtendedLarge

SpecLarge == InitLarge /\ [][NextLarge]_vars

----------------------------------------------------------------------------
(* The server of version 1.1.0 on a store with folders inside folders *)

MoveNoteV1 == MoveNoteV1Of({<<"n1">>, <<"zz">>}, {<<"f4">>, <<"fx">>}, BOOLEAN)
BatchMoveNotes == BatchMoveNotesOf({<<"n1">>}, {<<"f5">>, <<"fx">>}, FALSE)
CreateFolder ==
    CreateFolderOf({<<"Work">>, RecentlyDeleted},
                   {undefined, <<>>, <<"f4">>, <<"fd1">>, <<"fx">>})

NextNested ==
    \/ MoveNoteV1
    \/ BatchMoveNotes
    \/ ListFoldersNested
    \/ CreateFolder

SpecNested == InitNested /\ [][NextNested]_vars

----------------------------------------------------------------------------
(* One tools/call request with any name and arguments, on each store of *)
(* three notes                                                          *)

CallRegisteredTool == CallToolOf(ToolNames, ToolArgs)
CallUnknownTool == CallToolOf(UnknownTools, ToolArgs)

NextServer ==
    \/ result = NoCall /\ CallRegisteredTool
    \/ result = NoCall /\ CallUnknownTool

SpecServer == InitStore /\ [][NextServer]_vars

----------------------------------------------------------------------------
(* One runJxa call: the process exits at any moment or never, the timer *)
(* fires when it is due                                                 *)

NextJxa ==
    \/ StartRunJxa
    \/ ChildExits
    \/ ChildFails
    \/ Tick
    \/ TimerFires

SpecJxa == InitText /\ [][NextJxa]_vars

\* time passes and a timer that is due fires
SpecJxaFair == SpecJxa /\ WF_vars(Tick) /\ WF_vars(TimerFires)

----------------------------------------------------------------------------
(* The process: values are thrown and promises rejected while it runs *)

UncaughtException == UncaughtExceptionOf(ThrownValues)
UnhandledRejection == UnhandledRejectionOf(ThrownValues)

NextProcess ==
    \/ StartServer
    \/ UncaughtException
    \/ UnhandledRejection

SpecProcess == InitText /\ [][NextProcess]_vars

----------------------------------------------------------------------------
(* One wrapper built by runJxa, for any args array *)

RunJxaArgs == RunJxaArgsOf(ArgsArrays)

NextArgs == RunJxaArgs

SpecArgs == InitText /\ [][NextArgs]_vars

----------------------------------------------------------------------------
(* One batchMoveNotes call whose osascript process moves the notes one by *)
(* one while the timer of runJxa runs                                     *)

StartBatchMove == StartBatchMoveOf({<<"n1">>, <<"n2">>, <<"zz">>}, {<<"f1">>, <<"f2">>})

NextLate ==
    \/ StartBatchMove
    \/ ScriptMovesNext
    \/ ScriptReturns
    \/ Tick
    \/ TimerFires

SpecLate == Init /\ [][NextLate]_vars

----------------------------------------------------------------------------
(* Two createFolder calls with the same name and parent, their scripts *)
(* running in two processes at the same time                           *)

StartCreateFolders ==
    StartCreateFoldersOf({<<"Notes">>, <<"b">>, <<"Work">>},
                         {undefined, <<"f3">>, <<"f4">>, <<"fx">>})

NextRace ==
    \/ StartCreateFolders
    \/ ScriptLooksUp
    \/ ScriptMakesOrReturns

SpecRace == InitNested /\ [][NextRace]_vars

----------------------------------------------------------------------------
(* Properties *)

\* a step that is a call changes the operation last called or the notes
called == <<notes, result.op>>

FolderNameOf(fs, fid) == (CHOOSE f \in {fs[i] : i \in 1..Len(fs)} : f.id = fid).name

InTrash(n) == FolderNameOf(folders, n.folder) = RecentlyDeleted

IdsIn(out) == {out[k].id : k \in 1..Len(out)}

NoRepeatedId(out) == \A j, k \in 1..Len(out) : out[j].id = out[k].id => j = k

\* the notes listNotes chooses from: outside Recently Deleted and, when a
\* folder id is given, in that folder
ListCandidates(folderId) ==
    {i \in 1..Len(notes) :
        /\ ~InTrash(notes[i])
        /\ Truthy(folderId) => notes[i].folder = folderId}

\* C1: listNotes(limit, includePreview, folderId) returns exactly the
\* min(limit, N) most recently modified of the N candidate notes, in
\* non-increasing modificationDate order, each with the folder id it is in; the
\* candidates are the notes outside Recently Deleted and, when folderId is given
\* (a non-empty string), inside that folder.
C1_ListNotes ==
    result.op = "listNotes" =>
        LET limit == result.args[1]
            folderId == result.args[3]
            out == result.ret.value
            cand == ListCandidates(folderId)
        IN /\ result.ret.ok
           /\ Len(out) = Min(limit, Cardinality(cand))
           /\ NoRepeatedId(out)
           /\ \A k \in 1..(Len(out) - 1) :
                 getTime(out[k].modificationDate) >= getTime(out[k + 1].modificationDate)
           /\ \A k \in 1..Len(out) : \E i \in cand :
                 /\ out[k].id = notes[i].id
                 /\ out[k].name = notes[i].name
                 /\ getTime(out[k].modificationDate) = notes[i].modificationDate
                 /\ out[k].folderId = notes[i].folder
           /\ \A i \in cand : notes[i].id \notin IdsIn(out) =>
                 \A k \in 1..Len(out) :
                     notes[i].modificationDate <= getTime(out[k].modificationDate)
           /\ Truthy(folderId) => \A k \in 1..Len(out) : out[k].folderId = folderId

\* the limit cuts off an older note of the requested folder while another note
\* is in Recently Deleted
C1_Witness ==
    /\ result.op = "listNotes"
    /\ result.args[1] = 1
    /\ result.args[3] = <<"f1">>
    /\ Len(result.ret.value) = 1
    /\ \E i, j \in ListCandidates(<<"f1">>) :
          notes[i].modificationDate < notes[j].modificationDate
    /\ \E i \in 1..Len(notes) : InTrash(notes[i])

Matches(n, query) ==
    \/ Includes(toLowerCase(n.name), toLowerCase(query))
    \/ Includes(toLowerCase(n.plaintext), toLowerCase(query))

\* C2: searchNotes(query, limit) returns at most limit notes, no note id twice,
\* every returned note has the query in its title or plaintext compared
\* case-insensitively, and nothing is returned when no note matches.
C2_SearchNotes ==
    result.op = "searchNotes" =>
        LET query == result.args[1]
            limit == result.args[2]
            out == result.ret.value
        IN /\ result.ret.ok
           /\ Len(out) <= limit
           /\ NoRepeatedId(out)
           /\ \A k \in 1..Len(out) : \E i \in 1..Len(notes) :
                 notes[i].id = out[k].id /\ Matches(notes[i], query)
           /\ (\A i \in 1..Len(notes) : ~Matches(notes[i], query)) => out = <<>>

\* a note matching in both title and plaintext is returned once, together with
\* a note whose title matches only when case is ignored
C2_Witness ==
    /\ result.op = "searchNotes"
    /\ result.args[1] = <<"a">>
    /\ Len(result.ret.value) >= 2
    /\ \E i \in 1..Len(notes) :
          /\ notes[i].id \in IdsIn(result.ret.value)
          /\ Includes(notes[i].name, <<"a">>)
          /\ Includes(notes[i].plaintext, <<"a">>)
    /\ \E i \in 1..Len(notes) :
          /\ notes[i].id \in IdsIn(result.ret.value)
          /\ ~Includes(notes[i].name, <<"a">>)
          /\ Includes(notes[i].name, <<"A">>)

\* C3: readNote(nameOrId) returns the note whose id is nameOrId when there is
\* one, even when another note's name is nameOrId; otherwise the first note
\* whose name is nameOrId.
C3_ReadNote ==
    result.op = "readNote" =>
        LET term == result.args[1]
            byId == {i \in 1..Len(notes) : notes[i].id = term}
            byName == {i \in 1..Len(notes) : notes[i].name = term}
        IN /\ byId # {} =>
                 /\ result.ret.ok
                 /\ \E i \in byId : result.ret.value = NoteDetail(notes[i])
           /\ (byId = {} /\ byName # {}) =>
                 /\ result.ret.ok
                 /\ \E i \in byName :
                       /\ \A j \in byName : i <= j
                       /\ result.ret.value = NoteDetail(notes[i])

\* the note with the id is returned although an earlier note has that name
C3_Witness ==
    /\ result.op = "readNote"
    /\ result.ret.ok
    /\ \E i, j \in 1..Len(notes) :
          /\ i < j
          /\ notes[i].name = result.args[1]
          /\ notes[j].id = result.args[1]
          /\ result.ret.value.id = notes[j].id

NotFoundOps == {"readNote", "getNoteForSummary", "updateNote", "deleteNote"}

\* no note matches the identifier: readNote and getNoteForSummary look a note
\* up by id or name, updateNote and deleteNote by id
NoSuchNote(op, identifier) ==
    \A i \in 1..Len(notes) :
        /\ notes[i].id # identifier
        /\ op \in {"readNote", "getNoteForSummary"} => notes[i].name # identifier

\* the options of an updateNote call pass its validation
PassesValidation(r) ==
    r.op = "updateNote" =>
        /\ Truthy(r.args[2]) \/ Truthy(r.args[3])
        /\ Truthy(r.args[3]) => StrLen(r.args[3]) <= MAX_BODY_SIZE

RejectsNotFound(r) == ~r.ret.ok /\ r.ret.message = NoteNotFound(r.args[1])

\* C4 (as stated): readNote, getNoteForSummary, updateNote and deleteNote, called
\* with an identifier no note matches, reject with "Note not found: <identifier>"
\* and leave the note store unchanged.
C4_Original ==
    [][(result'.op \in NotFoundOps /\ NoSuchNote(result'.op, result'.args[1]))
          => (RejectsNotFound(result') /\ notes' = notes)]_called

\* C4 (amended): the same, for updateNote only when its options pass validation
\* (a non-empty title or body, and a body of at most MAX_BODY_SIZE characters).
C4_NotFound ==
    [][(/\ result'.op \in NotFoundOps
        /\ NoSuchNote(result'.op, result'.args[1])
        /\ PassesValidation(result'))
          => (RejectsNotFound(result') /\ notes' = notes)]_called

\* updateNote ran its script for an id no note has, and rejected
C4_Witness ==
    /\ result.op = "updateNote"
    /\ NoSuchNote("updateNote", result.args[1])
    /\ PassesValidation(result)
    /\ result.ran
    /\ RejectsNotFound(result)

\* C6: a successful moveNote(noteId, targetFolderId) leaves the note in the
\* target folder only, reports as previousFolderId the folder the note was in
\* before the call and as newFolderId the target, and changes nothing of any
\* other note.
C6_MoveNoteFrame ==
    [][(result'.op = "moveNote" /\ result'.ret.ok) =>
          LET noteId == result'.args[1]
              targetFolderId == result'.args[2]
          IN /\ Len(notes') = Len(notes)
             /\ result'.ret.value.newFolderId = targetFolderId
             /\ \E i \in 1..Len(notes) :
                   /\ notes[i].id = noteId
                   /\ result'.ret.value.previousFolderId = notes[i].folder
                   /\ notes'[i] = [notes[i] EXCEPT !.folder = targetFolderId]
                   /\ \A j \in 1..Len(notes) : j # i => notes'[j] = notes[j]]_called

\* a note has been moved out of one folder into another
C6_Witness ==
    /\ result.op = "moveNote"
    /\ result.ret.ok
    /\ result.ret.value.previousFolderId # result.ret.value.newFolderId
    /\ \E i \in 1..Len(notes) :
          notes[i].id = result.args[1] /\ notes[i].folder = result.args[2]
    /\ \E i \in 1..Len(notes) :
          notes[i].id # result.args[1] /\ notes[i].folder = result.ret.value.previousFolderId

RejectsWith(r, message) == ~r.ret.ok /\ r.ret.message = message

\* C7: moveNote fails with "Note not found: <noteId>" when no note has the id,
\* otherwise with "Folder not found: <targetFolderId>" when no folder has that
\* id, otherwise with "Cannot move to Recently Deleted folder" when the target
\* is named "Recently Deleted"; in each case no note changes folder, so no
\* moveNote puts a note into Recently Deleted.
C7_MoveNoteErrors ==
    [][result'.op = "moveNote" =>
          LET noteId == result'.args[1]
              targetFolderId == result'.args[2]
              noNote == \A i \in 1..Len(notes) : notes[i].id # noteId
              noFolder == targetFolderId \notin FolderIds(folders)
          IN /\ noNote => RejectsWith(result', NoteNotFound(noteId)) /\ notes' = notes
             /\ (~noNote /\ noFolder) =>
                   RejectsWith(result', FolderNotFound(targetFolderId)) /\ notes' = notes
             /\ (~noNote /\ ~noFolder
                   /\ FolderNameOf(folders, targetFolderId) = RecentlyDeleted) =>
                   RejectsWith(result', CannotMove) /\ notes' = notes
             /\ \A i \in 1..Len(notes) :
                   FolderNameOf(folders, notes'[i].folder) = RecentlyDeleted
                       => notes'[i].folder = notes[i].folder]_called

\* the ids of noteIds at the indices in at, in order
RECURSIVE IdsAt(_, _, _)
IdsAt(noteIds, at, i) ==
    IF i > Len(noteIds) THEN <<>>
    ELSE (IF i \in at THEN <<noteIds[i]>> ELSE <<>>) \o IdsAt(noteIds, at, i + 1)

\* C8: batchMoveNotes(noteIds, targetFolderId) with an existing target handles
\* every id in order: the ids with no note, or whose move throws, are the ids
\* recorded in failed, in order; every other id's note ends in the target
\* folder, also after an earlier failure; moved + failed.length = noteIds.length
\* and success is true exactly when failed is empty.
C8_BatchMoveNotes ==
    [][(result'.op = "batchMoveNotes" /\ result'.ret.ok) =>
          LET noteIds == result'.args[1]
              targetFolderId == result'.args[2]
              throwsAt == result'.args[3]
              out == result'.ret.value
              bad == {i \in 1..Len(noteIds) :
                         \/ \A k \in 1..Len(notes) : notes[k].id # noteIds[i]
                         \/ i \in throwsAt}
              good == (1..Len(noteIds)) \ bad
          IN /\ out.moved + Len(out.failed) = Len(noteIds)
             /\ out.moved = Cardinality(good)
             /\ out.success <=> (out.failed = <<>>)
             /\ [k \in 1..Len(out.failed) |-> out.failed[k].noteId] = IdsAt(noteIds, bad, 1)
             /\ \A i \in good : \E k \in 1..Len(notes) :
                   notes'[k].id = noteIds[i] /\ notes'[k].folder = targetFolderId
             /\ \A k \in 1..Len(notes) :
                   notes[k].id \notin {noteIds[i] : i \in good} => notes'[k] = notes[k]]_called

\* the first id has no note and is recorded, the second id's note is moved
C8_Witness ==
    /\ result.op = "batchMoveNotes"
    /\ result.ret.ok
    /\ Len(result.args[1]) = 2
    /\ result.ret.value.moved = 1
    /\ ~result.ret.value.success
    /\ Len(result.ret.value.failed) = 1
    /\ result.ret.value.failed[1].noteId = result.args[1][1]
    /\ \A k \in 1..Len(notes) : notes[k].id # result.args[1][1]
    /\ \E k \in 1..Len(notes) :
          notes[k].id = result.args[1][2] /\ notes[k].folder = result.args[2]

\* the entity a character is written as
EscapeChar(c) ==
    CASE c = "&" -> Amp
      [] c = "<" -> Lt
      [] c = ">" -> Gt
      [] c = "\"" -> Quot
      [] c = "'" -> Apos
      [] OTHER -> <<c>>

\* the text with each character written as its entity, one character at a time
Escaped(text) == Flatten([i \in 1..Len(text) |-> EscapeChar(text[i])])

NoSpecialCharacter(html) == \A k \in 1..Len(html) : html[k] \notin {"<", ">", "\"", "'"}

\* C5: the body createNote gives the new note is the template with the title
\* and the body each written character by character as entities (& as &amp;,
\* < as &lt;, > as &gt;, " as &quot;, ' as &#039;, no entity escaped again), so
\* that no < > " ' of the input survives; the note's name is the unescaped
\* title; the body argument updateNote sends to the script is the body escaped
\* in the same way inside a div.
C5_HtmlEscaped ==
    /\ (result.op = "createNote" /\ result.ret.ok) =>
          LET title == result.args[1]
              body == result.args[2]
              new == notes[Len(notes)]
          IN /\ new.id = result.ret.value.id
             /\ new.body = <<"<div><b>">> \o Escaped(title)
                              \o <<"</b></div><div><br></div><div>">>
                              \o Escaped(body) \o <<"</div>">>
             /\ NoSpecialCharacter(new.body)
             /\ new.name = title
    /\ (result.op = "updateNote" /\ result.ran /\ Truthy(result.args[3])) =>
          /\ result.sent[3] = <<"<div>">> \o Escaped(result.args[3]) \o <<"</div>">>
          /\ NoSpecialCharacter(result.sent[3])

\* a note was created from a title and a body that hold an ampersand and an
\* angle bracket
C5_Witness ==
    /\ result.op = "createNote"
    /\ result.ret.ok
    /\ result.args[1] = <<"<">>
    /\ result.args[2] = <<"&", ">">>
    /\ notes[Len(notes)].name = <<"<">>
    /\ Includes(notes[Len(notes)].body, Amp \o Gt)

\* C9: a successful deleteNote(noteId) moves the note to Recently Deleted and
\* changes no other note, its result carries the id, the name the note had and
\* success = true, and no later listNotes returns a deleted note.
C9_DeleteNote ==
    [][/\ (result'.op = "deleteNote" /\ result'.ret.ok) =>
             \E i \in 1..Len(notes) :
                 /\ notes[i].id = result'.args[1]
                 /\ result'.ret.value =
                        [id |-> result'.args[1], name |-> notes[i].name, success |-> TRUE]
                 /\ Len(notes') = Len(notes)
                 /\ FolderNameOf(folders, notes'[i].folder) = RecentlyDeleted
                 /\ notes'[i] = [notes[i] EXCEPT !.folder = notes'[i].folder]
                 /\ \A j \in 1..Len(notes) : j # i => notes'[j] = notes[j]
       /\ (result'.op = "listNotes" /\ result'.ret.ok) =>
             \A k \in 1..Len(result'.ret.value) : result'.ret.value[k].id \notin deleted']_called

\* C10: updateNote rejects without running its script and without changing the
\* store when neither title nor body is provided (undefined or empty), with "At
\* least one of title or body must be provided", and when the body is longer
\* than MAX_BODY_SIZE characters, with a message holding "Body exceeds maximum
\* size"; a body of exactly MAX_BODY_SIZE characters passes and the script runs.
C10_UpdateValidation ==
    [][result'.op = "updateNote" =>
          LET title == result'.args[2]
              body == result'.args[3]
          IN /\ (~Truthy(title) /\ ~Truthy(body)) =>
                   /\ ~result'.ran
                   /\ RejectsWith(result',
                                  <<"At least one of title or body must be provided">>)
                   /\ notes' = notes
             /\ (Truthy(body) /\ StrLen(body) > 100 * 1024) =>
                   /\ ~result'.ran
                   /\ ~result'.ret.ok
                   /\ Includes(result'.ret.message, <<"Body exceeds maximum size">>)
                   /\ notes' = notes
             /\ (Truthy(body) /\ StrLen(body) = 100 * 1024) =>
                   /\ result'.ran
                   /\ (\E i \in 1..Len(notes) : notes[i].id = result'.args[1]) =>
                         result'.ret.ok]_called

\* a body of exactly MAX_BODY_SIZE characters was accepted and stored
C10_Witness ==
    /\ result.op = "updateNote"
    /\ StrLen(result.args[3]) = 100 * 1024
    /\ result.ran
    /\ result.ret.ok
    /\ \E i \in 1..Len(notes) :
          notes[i].id = result.args[1] /\ StrLen(notes[i].plaintext) = 100 * 1024

\* a criterion of the filter, as the documentation states it: a bound that is
\* there holds when it is a date and the note's date is on the stated side of it
AtOrAfter(filter, key, date) ==
    key \in DOMAIN filter =>
        "iso" \in DOMAIN filter[key] /\ date >= filter[key].iso
Before(filter, key, date) ==
    key \in DOMAIN filter =>
        "iso" \in DOMAIN filter[key] /\ date < filter[key].iso

\* every criterion of the filter that is present holds of the stored note
MeetsCriteria(n, filter) ==
    /\ AtOrAfter(filter, "createdAfter", n.creationDate)
    /\ Before(filter, "createdBefore", n.creationDate)
    /\ AtOrAfter(filter, "modifiedAfter", n.modificationDate)
    /\ Before(filter, "modifiedBefore", n.modificationDate)
    /\ ("titleContains" \in DOMAIN filter /\ filter.titleContains # <<>>) =>
          Includes(toLowerCase(n.name), toLowerCase(filter.titleContains))

\* every date bound of the filter is a date
BoundsAreDates(filter) ==
    \A key \in DOMAIN filter \cap DateKeys : "iso" \in DOMAIN filter[key]

FilterOf(options) == IF "filter" \in DOMAIN options THEN options.filter ELSE NoOptions

\* the notes listNotesExtended(options) chooses from
ExtendedCandidates(options) ==
    {i \in ListCandidates(Option(options, "folderId", undefined)) :
        MeetsCriteria(notes[i], FilterOf(options))}

\* what a stored note and a returned note are ordered by
StoredKey(n, sortBy) ==
    CASE sortBy = "modificationDate" -> n.modificationDate
      [] sortBy = "creationDate" -> n.creationDate
      [] sortBy = "title" -> n.name
      [] sortBy = "folder" -> FolderNameOf(folders, n.folder)
ReturnedKey(r, sortBy) ==
    CASE sortBy = "modificationDate" -> r.modificationDate.iso
      [] sortBy = "creationDate" -> r.creationDate.iso
      [] sortBy = "title" -> r.name
      [] sortBy = "folder" -> r.folderName

\* key x comes strictly before key y in the order asked for
StrictlyBefore(options, x, y) ==
    LET c == Comparison(Option(options, "sortBy", "modificationDate"), x, y)
    IN IF Option(options, "sortOrder", "desc") = "asc" THEN c < 0 ELSE c > 0

\* C11: listNotesExtended(options) filters, then sorts, then limits: it returns
\* the first limit (default 100) of the notes that are outside Recently
\* Deleted, in folderId when given, and pass the filter, ordered by sortBy
\* (default modificationDate) in the direction sortOrder (default desc): the
\* result has min(limit, N) notes of the N that qualify, in order, and no note
\* left out comes before a returned one. Stated for filters whose bounds are
\* dates.
C11_ListNotesExtended ==
    (result.op = "listNotesExtended" /\ BoundsAreDates(FilterOf(result.args[1]))) =>
        LET options == result.args[1]
            sortBy == Option(options, "sortBy", "modificationDate")
            out == result.ret.value
            cand == ExtendedCandidates(options)
        IN /\ result.ret.ok
           /\ Len(out) = Min(Option(options, "limit", 100), Cardinality(cand))
           /\ NoRepeatedId(out)
           /\ \A k \in 1..Len(out) : \E i \in cand :
                 /\ out[k].id = notes[i].id
                 /\ ReturnedKey(out[k], sortBy) = StoredKey(notes[i], sortBy)
           /\ \A k \in 1..(Len(out) - 1) :
                 ~StrictlyBefore(options, ReturnedKey(out[k + 1], sortBy),
                                 ReturnedKey(out[k], sortBy))
           /\ \A i \in cand : notes[i].id \notin IdsIn(out) =>
                 \A k \in 1..Len(out) :
                     ~StrictlyBefore(options, StoredKey(notes[i], sortBy),
                                     ReturnedKey(out[k], sortBy))

\* C12: a note passes the filter of listNotesExtended exactly when every
\* criterion that is present holds: creationDate >= createdAfter, creationDate
\* < createdBefore, modificationDate >= modifiedAfter, modificationDate <
\* modifiedBefore, and the title contains titleContains ignoring case. Seen
\* with the default limit, which exceeds the number of notes: the notes returned
\* are the notes outside Recently Deleted that meet the criteria.
C12_Filter ==
    (result.op = "listNotesExtended" /\ "limit" \notin DOMAIN result.args[1]
       /\ Len(notes) <= 100) =>
        /\ result.ret.ok
        /\ IdsIn(result.ret.value) =
              {notes[i].id : i \in ExtendedCandidates(result.args[1])}

\* the same for the filters whose bounds are all dates
FilterOfDates ==
    (result.op = "listNotesExtended" /\ BoundsAreDates(FilterOf(result.args[1])))
        => C12_Filter

----------------------------------------------------------------------------
(* listFolders of version 1.1.0 *)

\* every node of a forest of folders, parents before their subfolders
RECURSIVE ForestNodes(_)
ForestNodes(forest) ==
    IF forest = <<>> THEN <<>>
    ELSE <<Head(forest)>> \o ForestNodes(Head(forest).subfolders)
                          \o ForestNodes(Tail(forest))

IdsOfNodes(nodes) == {nodes[k].id : k \in 1..Len(nodes)}

\* folder f appears exactly once in the forest, and where its parent says
InItsPlace(forest, f) ==
    LET nodes == ForestNodes(forest)
    IN /\ Cardinality({k \in 1..Len(nodes) : nodes[k].id = f.id}) = 1
       /\ IF ParentOf(f) = null
          THEN f.id \in IdsOfNodes(forest)
          ELSE \E k \in 1..Len(nodes) :
                  nodes[k].id = ParentOf(f) /\ f.id \in IdsOfNodes(nodes[k].subfolders)

Hierarchy(forest, fs) ==
    /\ \A i \in 1..Len(fs) : fs[i].name # RecentlyDeleted => InItsPlace(forest, fs[i])
    /\ \A k \in 1..Len(ForestNodes(forest)) :
          ForestNodes(forest)[k].name # RecentlyDeleted

\* C13: the forest listFolders returns holds every folder not named "Recently
\* Deleted" exactly once, as a root when it has no parent and otherwise inside
\* its parent's subfolders only, and holds no folder named "Recently Deleted"
C13_ListFolders ==
    result.op = "listFolders" => result.ret.ok /\ Hierarchy(result.ret.value, folders)

\* no folder named "Recently Deleted" is inside a folder, and no folder is
\* inside one named "Recently Deleted"
TrashOnlyAtTop(fs) ==
    \A i \in 1..Len(fs) :
        ParentOf(fs[i]) # null =>
            /\ fs[i].name # RecentlyDeleted
            /\ FolderNameOf(fs, ParentOf(fs[i])) # RecentlyDeleted

\* on such a store listFolders does return the hierarchy
ListFoldersTrashAtTop ==
    result.op = "listFolders" /\ TrashOnlyAtTop(folders) =>
        result.ret.ok /\ Hierarchy(result.ret.value, folders)

\* listFolders on a store with a folder at depth four
ListFoldersTrashAtTopSeen ==
    /\ result.op = "listFolders"
    /\ TrashOnlyAtTop(folders)
    /\ \E k \in 1..Len(ForestNodes(result.ret.value)) :
          ForestNodes(result.ret.value)[k].path = <<"Notes", "/", "a", "/", "b", "/", "Work">>

\* listFolders on a store with a folder named "Recently Deleted" inside f4
ListFoldersTrashInsideSeen ==
    /\ result.op = "listFolders"
    /\ \E i \in 1..Len(folders) :
          folders[i].name = RecentlyDeleted /\ ParentOf(folders[i]) = <<"f4">>
    /\ \A i \in 1..Len(folders) :
          ParentOf(folders[i]) # null =>
              FolderNameOf(folders, ParentOf(folders[i])) # RecentlyDeleted
    /\ ~Hierarchy(result.ret.value, folders)

----------------------------------------------------------------------------
(* moveNote and batchMoveNotes of version 1.1.0 *)

MovesOfV1 == {"moveNoteV1", "batchMoveNotes"}

FailsWith(ret, message) == ~ret.ok /\ Includes(ret.message, message)

\* the claim as stated: a call whose target folder is nowhere in the store
\* fails with "Folder not found: <targetFolderId>", whatever else it is given
C14_Original ==
    [][result'.op \in MovesOfV1 =>
        LET targetFolderId == result'.args[2]
        IN IF targetFolderId \in FolderIds(folders)
           THEN ~FailsWith(result'.ret, <<"Folder not found">>)
           ELSE /\ FailsWith(result'.ret, FolderNotFound(targetFolderId))
                /\ notes' = notes]_called

\* C14: a call whose target folder is in the store, at any depth, does not fail
\* with "Folder not found"; a call whose target folder is not in the store
\* moves no note and fails, batchMoveNotes and moveNote of a note of the store
\* with "Folder not found: <targetFolderId>", moveNote of a note that is not in
\* the store with "Note not found: <noteId>"
C14_TargetFolder ==
    [][result'.op \in MovesOfV1 =>
        LET targetFolderId == result'.args[2]
            noteMissing == result'.op = "moveNoteV1"
                           /\ result'.args[1] \notin NoteIdsOf(notes)
        IN IF targetFolderId \in FolderIds(folders)
           THEN ~FailsWith(result'.ret, <<"Folder not found">>)
           ELSE /\ notes' = notes
                /\ IF noteMissing
                   THEN FailsWith(result'.ret, NoteNotFound(result'.args[1]))
                   ELSE FailsWith(result'.ret, FolderNotFound(targetFolderId))]_called

\* batchMoveNotes has moved n1 into f5, a folder inside f2
C14_Witness ==
    /\ result.op = "batchMoveNotes"
    /\ result.args[2] = <<"f5">>
    /\ ParentOf(folders[FirstIndex(folders, LAMBDA f : f.id = <<"f5">>)]) = <<"f2">>
    /\ result.ret.ok
    /\ result.ret.value.moved = 1
    /\ \E i \in 1..Len(notes) : notes[i].id = <<"n1">> /\ notes[i].folder = <<"f5">>

\* moveNote of a note of the store into a folder that is not in the store
C14_NoFolderSeen ==
    /\ result.op = "moveNoteV1"
    /\ result.args = << <<"n1">>, <<"fx">> >>
    /\ FailsWith(result.ret, FolderNotFound(<<"fx">>))

----------------------------------------------------------------------------
(* Recently Deleted *)

TrashIds(ns) == {ns[i].id : i \in {j \in 1..Len(ns) : InTrash(ns[j])}}

\* the ids of the notes a fulfilled query returns
ReturnedIds(call) ==
    IF ~call.ret.ok THEN {}
    ELSE IF call.op \in {"listNotes", "listNotesExtended", "searchNotes"}
    THEN IdsIn(call.ret.value)
    ELSE IF call.op \in {"readNote", "getNoteForSummary"} THEN {call.ret.value.id}
    ELSE {}

\* C15: no call changes a note that is in a folder named "Recently Deleted"
\* (its title, body, dates or folder), and no query returns such a note
C15_RecentlyDeletedSkipped ==
    [][/\ \A i \in 1..Len(notes) : InTrash(notes[i]) => notes'[i] = notes[i]
       /\ ReturnedIds(result') \cap TrashIds(notes) = {}]_called

\* a listNotes call made while a note is in Recently Deleted does not return it
ListNotesSkipsTrash ==
    [][result'.op = "listNotes" =>
          ReturnedIds(result') \cap TrashIds(notes) = {}]_called

----------------------------------------------------------------------------
(* Writes *)

\* C16: no call changes the title or the body of a note that exists, or takes
\* a note out of the folder it is listed in
C16_OnlyCreates ==
    [][\A i \in 1..Len(notes) :
          /\ notes'[i].name = notes[i].name
          /\ notes'[i].body = notes[i].body
          /\ notes'[i].folder = notes[i].folder]_called

\* calls add notes and leave the notes there are in place, with their ids
NotesStay ==
    [][/\ Len(notes') >= Len(notes)
       /\ \A i \in 1..Len(notes) : notes'[i].id = notes[i].id]_called

----------------------------------------------------------------------------
(* The handler of tools/call requests *)

StartsWith3(message, a, b, c) ==
    Len(message) > 3 /\ SubSeq(message, 1, 3) = <<a, b, c>>

\* C17: a request naming a tool that is not registered is answered with the
\* error MethodNotFound, "Unknown tool: <name>", and no service function runs
C17_UnknownTool ==
    (result.op = "callTool" /\ result.args[1] \notin ToolNames) =>
        /\ ~result.ret.ok
        /\ result.ret.code = "MethodNotFound"
        /\ result.ret.message = <<"Unknown tool: ", result.args[1]>>
        /\ result.ran = "none"

\* such a request is answered with an error naming the tool, and nothing runs
UnknownToolRunsNothing ==
    [][(result'.op = "callTool" /\ result'.args[1] \notin ToolNames) =>
          /\ ~result'.ret.ok
          /\ Includes(result'.ret.message, <<"Unknown tool: ", result'.args[1]>>)
          /\ result'.ran = "none"
          /\ notes' = notes]_called

\* C18: a request for a registered tool whose arguments do not satisfy the
\* tool's schema is answered with the error InvalidParams, no service function
\* runs and the notes stay as they are; a request whose service function fails
\* is answered with the error InternalError, "Failed to execute <tool>: "
\* followed by the cause
C18_Errors ==
    [][result'.op = "callTool" =>
        LET name == result'.args[1]
            args == result'.args[2]
        IN /\ (name \in DOMAIN ArgsSchemas /\ Issues(ArgsSchemas[name], args) # {}) =>
                 /\ ~result'.ret.ok
                 /\ result'.ret.code = "InvalidParams"
                 /\ result'.ran = "none"
                 /\ notes' = notes
           /\ (result'.ran # "none" /\ ~result'.ret.ok) =>
                 /\ result'.ret.code = "InternalError"
                 /\ StartsWith3(result'.ret.message, "Failed to execute ", name, ": ")]_called

\* move_note with a number for targetFolderId is refused with InvalidParams
C18_Witness ==
    /\ result.op = "callTool"
    /\ result.args[1] = "move_note"
    /\ "targetFolderId" \in DOMAIN result.args[2]
    /\ result.args[2].targetFolderId.type = "number"
    /\ ~result.ret.ok
    /\ result.ret.code = "InvalidParams"
    /\ result.ran = "none"

\* read_note of a note that is not there fails with InternalError and the cause
C18_FailureSeen ==
    /\ result.op = "callTool"
    /\ result.args[1] = "read_note"
    /\ result.ran = "readNote"
    /\ ~result.ret.ok
    /\ result.ret.code = "InternalError"
    /\ result.ret.message =
          <<"Failed to execute ", "read_note", ": ", "Note not found", ": ", "zz">>

----------------------------------------------------------------------------
(* runJxa *)

Pending == result.op = "runJxa" /\ ~result.settled
Settled == result.op = "runJxa" /\ result.settled

\* C19: a runJxa call is not pending after its timeout has passed and it does
\* settle; when the timer fires on a pending call the call rejects with "Failed
\* to execute JXA: JXA execution timeout after <timeout>ms"; once the call has
\* settled, the timer changes nothing
C19_Timeout ==
    /\ [](Pending => result.clock <= result.args[1])
    /\ (Pending ~> Settled)
    /\ [][(Pending /\ result.timer = "set" /\ result'.timer = "fired") =>
             result'.ret = Rejected(<<"Failed to execute JXA: ",
                                      "JXA execution timeout after ",
                                      ToString(result.args[1]), "ms">>)]_vars
    /\ [][Settled => result'.settled /\ result'.ret = result.ret]_vars

\* the process never exited and the call was rejected when the timer fired
C19_Witness ==
    /\ Settled
    /\ result.child.state = "running"
    /\ result.timer = "fired"
    /\ result.clock = result.args[1]
    /\ result.ret = Rejected(<<"Failed to execute JXA: ", "JXA execution timeout after ",
                               "2", "ms">>)

\* the process exited first and the timer fired afterwards
C19_ExitFirstSeen ==
    /\ Settled
    /\ result.child.state = "exited"
    /\ result.timer = "fired"
    /\ result.ret = Resolved(<<"n1">>)

\* the text runJxa decodes: trimmed stderr unless that is empty, else trimmed stdout
Chosen(child) == IF Trim(child.stderr) # <<>> THEN Trim(child.stderr) ELSE Trim(child.stdout)

\* the call was settled by the exit of the process
SettledByExit ==
    Settled /\ result.child.state = "exited" /\ result.timer = "set"

\* C20: a call settled by the exit of the process resolves to the data of a
\* success envelope, rejects with "JXA Error: <message>" for an error envelope
\* and resolves to null when both channels are empty, the envelope being the
\* trimmed stderr unless that is empty and else the trimmed stdout; every
\* rejection of runJxa begins with "Failed to execute JXA: "
C20_Decode ==
    /\ SettledByExit =>
          /\ Chosen(result.child) = <<>> => result.ret = Resolved(null)
          /\ Chosen(result.child) = <<SuccessText>> => result.ret = Resolved(<<"n1">>)
          /\ Chosen(result.child) = <<ErrorText>> =>
                ~result.ret.ok /\ Includes(result.ret.message, <<"JXA Error: ", "boom">>)
    /\ (Settled /\ ~result.ret.ok) =>
          Len(result.ret.message) > 1 /\ Head(result.ret.message) = "Failed to execute JXA: "

\* stderr holds a success envelope between blanks, stdout an error envelope
C20_Witness ==
    /\ SettledByExit
    /\ result.child.stderr = <<" ", SuccessText, " ">>
    /\ result.child.stdout = <<ErrorText>>
    /\ result.ret = Resolved(<<"n1">>)

----------------------------------------------------------------------------
(* The process *)

Running == result.op = "process" /\ result.state = "running"

\* the value is an object whose code or errno is "EPIPE"
IsEPIPE(error) ==
    /\ error.type = "object"
    /\ \E key \in {"code", "errno"} : key \in DOMAIN error.value /\ error.value[key] = <<"EPIPE">>

\* the process was running and the step is the listener of the event
Raised(event) == Running /\ result'.args[1] = event

\* the process goes on, or ends with the code
GoesOn == result'.state = "running"
EndsWith(code) == result'.state = "exited" /\ result'.exitCode = code

\* C21: an uncaught exception whose code or errno is "EPIPE" does not end the
\* process, an unhandled rejection does not end it, and any other uncaught
\* exception ends it with exit code 1
C21_SurvivesDisconnect ==
    [][/\ Raised("unhandledRejection") => GoesOn
       /\ Raised("uncaughtException") =>
             IF IsEPIPE(result'.args[2]) THEN GoesOn ELSE EndsWith(1)]_vars

\* C21 as the listeners have it: an unhandled rejection does not end the process;
\* an uncaught exception that is an object whose code or errno is "EPIPE" does
\* not end it; any other uncaught exception ends it, with exit code 1 when the
\* value thrown is not null or undefined and with exit code 7 when it is
C21_Listeners ==
    [][/\ Raised("unhandledRejection") => GoesOn
       /\ Raised("uncaughtException") =>
             IF IsEPIPE(result'.args[2]) THEN GoesOn
             ELSE IF result'.args[2].type \in {"null", "undefined"} THEN EndsWith(7)
             ELSE EndsWith(1)]_vars

\* null was thrown and the process has ended with exit code 7
NullThrownSeen ==
    /\ result.op = "process"
    /\ result.args[1] = "uncaughtException"
    /\ result.args[2].type = "null"
    /\ result.state = "exited"
    /\ result.exitCode = 7

\* the process runs on after an EPIPE exception and an unhandled rejection
C21_Witness ==
    /\ Running
    /\ result.stderr = <<"Apple Notes MCP Server starting...",
                         "Apple Notes MCP Server running on stdio",
                         "Client disconnected (EPIPE)", "Unhandled rejection at:">>

----------------------------------------------------------------------------
(* createNote *)

\* the step is a call of the operation
Calls(op) == result'.op = op

\* the store has gained one note, with an id no note had, and nothing else has changed
OneNoteAdded ==
    /\ Len(notes') = Len(notes) + 1
    /\ SubSeq(notes', 1, Len(notes)) = notes
    /\ notes'[Len(notes')].id \notin NoteIdsOf(notes)

\* C22: createNote adds exactly one new note and places it in the first folder
\* of the first account; without an account it fails with "No Notes account
\* found", without a folder in that account with "No folders found in the
\* default account", and then creates nothing
C22_CreateNote ==
    [][Calls("createNote") =>
          IF NumAccounts = 0
          THEN FailsWith(result'.ret, <<"No Notes account found">>) /\ notes' = notes
          ELSE IF AccountFolders(folders, 1) = <<>>
          THEN /\ FailsWith(result'.ret, <<"No folders found in the default account">>)
               /\ notes' = notes
          ELSE /\ OneNoteAdded
               /\ notes'[Len(notes')].folder = AccountFolders(folders, 1)[1].id]_called

\* createNote adds exactly one new note, whose id and name it returns
CreateNoteAddsOne ==
    [][Calls("createNote") =>
          /\ OneNoteAdded
          /\ result'.ret = Resolved([id |-> notes'[Len(notes')].id, name |-> result'.args[1]])
          /\ notes'[Len(notes')].name = result'.args[1]]_called

\* a created note lies in a folder that is not the first of the first account
CreatedElsewhereSeen ==
    /\ result.op = "createNote"
    /\ result.ret.ok
    /\ notes[Len(notes)].id = result.ret.value.id
    /\ notes[Len(notes)].folder # AccountFolders(folders, 1)[1].id

----------------------------------------------------------------------------
(* The arguments of a script *)

\* C23: the value the script obtains by JSON.parse of the single-quoted literal
\* that runJxa builds equals the args array, and no character of the arguments
\* is left over as code after the literal
C23_ArgsRoundTrip ==
    result.op = "args" =>
        /\ result.ret.ok
        /\ result.ret.rest = <<>>
        /\ result.ret.value = JsonArray(result.args[1])

\* an argument of a single quote and a backslash, and one of a newline and a
\* double quote, have reached the script unchanged
C23_Witness ==
    /\ result.op = "args"
    /\ result.args[1] \in {<<JsonString(<<"'", "\\">>)>>, <<JsonString(<<"\n", "\"">>)>>}
    /\ result.ret.ok
    /\ result.ret.value.items = result.args[1]

----------------------------------------------------------------------------
(* createFolder *)

\* the folders of the name that the parent holds: the folders directly inside
\* the folder parentFolderId, the top-level folders of the first account when
\* no parentFolderId is given
HeldBy(fs, parentFolderId, name) ==
    {i \in 1..Len(fs) :
        /\ fs[i].name = name
        /\ IF parentFolderId = undefined THEN fs[i].account = 1 /\ ParentOf(fs[i]) = null
           ELSE ParentOf(fs[i]) = parentFolderId}

\* the folders of the name among those the script asks the container for: a
\* parentFolderId that is undefined or empty stands for the first account,
\* whose folders() lists the folders at every depth
ListedBy(fs, parentFolderId, name) ==
    {i \in 1..Len(fs) :
        /\ fs[i].name = name
        /\ IF Truthy(parentFolderId) THEN ParentOf(fs[i]) = parentFolderId
           ELSE fs[i].account = 1}

\* the call returns the id and the name of folder i and creates nothing
ReturnsFolder(i) ==
    /\ result'.ret = Resolved([id |-> folders[i].id, name |-> folders[i].name])
    /\ folders' = folders

\* the same call made again on the store it left
Again == createFolder(folders, result.args[1], result.args[2], <<"f0">>)

\* a createFolder call that succeeded would, made again, return the same id
\* and create nothing
Repeatable ==
    (result.op = "createFolder" /\ result.ret.ok) =>
        Again.ret = result.ret /\ Again.store = folders

ExistingReturnedSeen ==
    /\ result.op = "createFolder"
    /\ result.args = <<RecentlyDeleted, undefined>>
    /\ result.ret = Resolved([id |-> <<"fd1">>, name |-> RecentlyDeleted])
    /\ folders = NestedFolders

\* a call with an empty parentFolderId made a folder in the first account
EmptyParentSeen ==
    /\ result.op = "createFolder"
    /\ result.args[2] = <<>>
    /\ result.ret.ok
    /\ folders[Len(folders)].id = result.ret.value.id
    /\ Len(folders) > Len(NestedFolders)

----------------------------------------------------------------------------
(* updateNote *)

\* the body stored for a supplied body: its escaped text in a div
StoredBody(body) == <<"<div>">> \o Escaped(body) \o <<"</div>">>

\* C25: a successful updateNote changes only the note with the id; its name
\* becomes the title when a title is supplied and stays otherwise, its body is
\* replaced when a non-empty body is supplied and stays otherwise, its id,
\* folder and creation date stay, and every other note stays as it is
C25_UpdateNoteFrame ==
    [][(Calls("updateNote") /\ result'.ret.ok) =>
          LET noteId == result'.args[1]
              title == result'.args[2]
              body == result'.args[3]
          IN /\ Len(notes') = Len(notes)
             /\ \A i \in 1..Len(notes) :
                   IF notes[i].id # noteId THEN notes'[i] = notes[i]
                   ELSE /\ notes'[i].id = noteId
                        /\ notes'[i].folder = notes[i].folder
                        /\ notes'[i].creationDate = notes[i].creationDate
                        /\ notes'[i].name = IF title # undefined THEN title ELSE notes[i].name
                        /\ notes'[i].body = IF body # undefined /\ body # <<>>
                                            THEN StoredBody(body) ELSE notes[i].body]_called

\* a body was supplied without a title: the body of n2 is replaced, its name stays
C25_Witness ==
    /\ result.op = "updateNote"
    /\ result.args = << <<"n2">>, undefined, <<"<", "a">> >>
    /\ result.ret.ok
    /\ notes[2].body = <<"<div>", "&", "l", "t", ";", "a", "</div>">>
    /\ notes[2].name = <<"a">>
    /\ notes[1].body = <<"<div>", "b", "</div>">>

\* a title was supplied with an empty body: the name of n1 is the title, its body stays
TitleOnlySeen ==
    /\ result.op = "updateNote"
    /\ result.args = << <<"n1">>, <<"A", "b">>, <<>> >>
    /\ result.ret.ok
    /\ notes[1].name = <<"A", "b">>
    /\ notes[1].body = <<"<div>", "b", "</div>">>

----------------------------------------------------------------------------
(* searchNotes: titles before bodies *)

\* the ids of the notes whose title has the query, and of those that have it
\* in their plaintext only
TitleMatchIds(query) ==
    {notes[i].id : i \in {j \in 1..Len(notes) :
                            Includes(toLowerCase(notes[j].name), toLowerCase(query))}}
BodyOnlyMatchIds(query) ==
    {notes[i].id : i \in {j \in 1..Len(notes) :
                            /\ Includes(toLowerCase(notes[j].plaintext), toLowerCase(query))
                            /\ ~Includes(toLowerCase(notes[j].name), toLowerCase(query))}}

\* C26: when the result of searchNotes holds a note that matches in its
\* plaintext only, it holds every note whose title matches; when more than
\* limit titles match, it holds title matches only
C26_TitlesFirst ==
    result.op = "searchNotes" =>
        LET query == result.args[1]
            limit == result.args[2]
            out == IdsIn(result.ret.value)
        IN /\ result.ret.ok
           /\ (out \cap BodyOnlyMatchIds(query) # {}) => TitleMatchIds(query) \subseteq out
           /\ Cardinality(TitleMatchIds(query)) > limit => out \subseteq TitleMatchIds(query)

\* two titles match and limit is 1: one title match is returned and the note
\* that matches in its plaintext only is left out
C26_Witness ==
    /\ result.op = "searchNotes"
    /\ result.args[1] = <<"a">>
    /\ result.args[2] = 1
    /\ Cardinality(TitleMatchIds(<<"a">>)) = 2
    /\ BodyOnlyMatchIds(<<"a">>) = {<<"n3">>}
    /\ Len(result.ret.value) = 1
    /\ IdsIn(result.ret.value) \subseteq TitleMatchIds(<<"a">>)

\* the limit leaves room: the title matches and a plaintext-only match are returned
BodyMatchAfterTitlesSeen ==
    /\ result.op = "searchNotes"
    /\ result.args[1] = <<"a">>
    /\ Cardinality(TitleMatchIds(<<"a">>)) = 2
    /\ IdsIn(result.ret.value) = TitleMatchIds(<<"a">>) \cup {<<"n3">>}
    /\ <<"n3">> \in BodyOnlyMatchIds(<<"a">>)

----------------------------------------------------------------------------
(* batchMoveNotes and moveNote of version 1.1.0 *)

\* moveNote called once per id from index i on, in order; the move of the
\* call at an index in throwsAt throws; succeeded counts the calls that resolve
RECURSIVE MoveEach(_, _, _, _, _, _, _)
MoveEach(ns, fs, noteIds, i, targetFolderId, throwsAt, succeeded) ==
    IF i > Len(noteIds) THEN [store |-> ns, succeeded |-> succeeded]
    ELSE LET m == moveNoteV1(ns, fs, noteIds[i], targetFolderId, i \in throwsAt)
         IN MoveEach(m.store, fs, noteIds, i + 1, targetFolderId, throwsAt,
                     succeeded + (IF m.ret.ok THEN 1 ELSE 0))

\* the folder of each note
FolderOf(ns) == [k \in 1..Len(ns) |-> <<ns[k].id, ns[k].folder>>]

\* C27: batchMoveNotes with an existing target folder leaves every note in the
\* folder that moveNote, called once per id in order with the same target,
\* leaves it in, and moved is the number of those calls that succeed
C27_BatchIsMoveEach ==
    [][(Calls("batchMoveNotes") /\ result'.args[2] \in FolderIds(folders)) =>
          LET each == MoveEach(notes, folders, result'.args[1], 1, result'.args[2],
                               result'.args[3], 0)
          IN /\ result'.ret.ok
             /\ FolderOf(notes') = FolderOf(each.store)
             /\ result'.ret.value.moved = each.succeeded]_called

\* the id of a note is listed twice: the note is in the target folder and both
\* moves are counted
C27_Witness ==
    /\ result.op = "batchMoveNotes"
    /\ result.args = << << <<"n1">>, <<"n1">> >>, <<"f2">>, {} >>
    /\ result.ret.ok
    /\ result.ret.value.moved = 2
    /\ notes[1].folder = <<"f2">>

\* an id without a note, then a note whose move throws: nothing is moved
NothingMovedSeen ==
    /\ result.op = "batchMoveNotes"
    /\ result.args = << << <<"zz">>, <<"n2">> >>, <<"f1">>, {2} >>
    /\ result.ret.ok
    /\ result.ret.value.moved = 0
    /\ notes[2].folder # <<"f1">>

----------------------------------------------------------------------------
(* A call that timed out *)

\* the call has been answered with the timeout error of runJxa
TimedOut ==
    /\ result.op = "runJxa"
    /\ result.settled
    /\ FailsWith(result.ret, <<"JXA execution timeout after ">>)

\* C28: once a mutating call has been answered with a JXA timeout error, the
\* osascript process started for it changes the note store no more
C28_NoLateEffect == [][TimedOut => notes' = notes]_vars

\* the answer of a call that timed out does not change any more
TimedOutStays == [][TimedOut => result'.ret = result.ret]_vars

\* the call was answered with the timeout error before any note was moved, and
\* the process has since moved both notes and exited
LateEffectSeen ==
    /\ TimedOut
    /\ result.args[2] = << <<"n1">>, <<"n2">> >>
    /\ result.args[3] = <<"f2">>
    /\ result.child.state = "exited"
    /\ result.child.late = 2
    /\ notes[1].folder = <<"f2">>
    /\ notes[2].folder = <<"f2">>

----------------------------------------------------------------------------
(* createFolder calls that overlap *)

\* both calls have been answered
BothDone ==
    /\ result.op = "createFolders"
    /\ \A p \in 1..2 : result.calls[p].pc = "done"

\* the parent, an existing folder or the first account, holds exactly one
\* folder of the name and both calls have returned its id
OneFolderForBoth ==
    LET held == HeldBy(folders, result.args[2], result.args[1])
    IN /\ Cardinality(held) = 1
       /\ \A p \in 1..2 : \A i \in held :
             result.calls[p].ret = Resolved([id |-> folders[i].id, name |-> folders[i].name])

\* the name is not one that only a folder deeper inside the first account has
NameAtTopOrNew ==
    result.args[2] = undefined =>
        ListedBy(folders, undefined, result.args[1]) = HeldBy(folders, undefined, result.args[1])

\* C29: after two concurrent createFolder calls with the same name and the
\* same parent, in any interleaving, the parent holds exactly one folder of
\* that name and both calls have returned that folder's id
C29_ConcurrentCreate ==
    (BothDone /\ result.args[2] # <<"fx">> /\ NameAtTopOrNew) => OneFolderForBoth

\* the same for two calls of which the second looks after the first has made
CreateInTurn ==
    (BothDone /\ ~result.overlapped /\ result.args[2] # <<"fx">> /\ NameAtTopOrNew) =>
        OneFolderForBoth

\* both scripts looked before either made: f4 holds two folders named Work and
\* the calls have returned different ids
TwoFoldersSeen ==
    /\ BothDone
    /\ result.overlapped
    /\ result.args = << <<"Work">>, <<"f4">> >>
    /\ Cardinality(HeldBy(folders, <<"f4">>, <<"Work">>)) = 2
    /\ result.calls[1].ret.value.id # result.calls[2].ret.value.id

\* the calls were handled in turn: one folder, returned by both
CreateInTurnSeen ==
    /\ BothDone
    /\ ~result.overlapped
    /\ result.args = << <<"Work">>, <<"f4">> >>
    /\ OneFolderForBoth

====
